---- MODULE Spec2Model ----
(***************************************************************************)
(* Permission broker (PermissionManager), its event bus (the EventEmitter  *)
(* it extends) and the WebSocket fan-out (WebSocketManager) of             *)
(* Eyevinn/open-builder.                                                   *)
(*                                                                         *)
(* The server is a single Node.js event loop: every handler (an HTTP       *)
(* request up to its first await, a timer callback, a WebSocket            *)
(* 'connection' / 'close' / 'error' callback) runs to completion, so each  *)
(* is one atomic action.  EventEmitter.emit calls the listeners            *)
(* synchronously, in registration order, on a copy of the listener list.   *)
(* server.js (lines 650-873) holds an inline copy of the same handlers.    *)
(*                                                                         *)
(* bus, connectedAt, origin, resolveCalls, calls, notFound, rejected,      *)
(* events and queryCalls are history variables: they record what happened  *)
(* and no handler reads them.  Text is a sequence of characters.            *)
(*                                                                         *)
(* The second part is the session workspace map (WorkspaceManager) as the  *)
(* chat calls (ChatProcessor) use it.  Its actions are put together in     *)
(* SessionSpec, in which the permission broker stays idle.  A chat call    *)
(* is split where its code awaits: fs.ensureDir, fs.writeFile and the      *)
(* messages of the agent SDK's query().                                    *)
(***************************************************************************)
EXTENDS Integers, Sequences, FiniteSets, TLC

\* ---- bounds -------------------------------------------------------------
MaxCalls == 5         \* calls and connections the environment makes
MaxChats == 3         \* chat requests the environment makes
MaxTexts == 1         \* text events the chat calls send in all
MaxLatencyMs == 2000  \* one-way travel time between the proxy and the broker
MaxMessages == 2      \* messages the agent yields to one pair of chat loops
MaxChunks == 2        \* text events of the chat call a browser reads

\* ---- timeouts ------------------------------------------------------------
ProxyTimeoutMs == 65000    \* setTimeout(() => controller.abort(), 65000)
BrokerTimeoutMs == 60000   \* the setTimeout of the submit endpoint

\* every id is minted by a call or a connection, so there are at most MaxCalls
RequestIds == 1..MaxCalls
ClientIds  == 1..MaxCalls
ChatIds    == 1..MaxChats

\* ---- input domains --------------------------------------------------------
ActionInputs      == {"", "Write"}          \* "" stands for a missing/empty action
DescriptionInputs == {"", "write a file"}   \* "" stands for a missing/empty description
ReasonInputs      == {"", "checked"}        \* "" stands for a missing/empty reason

VARIABLES
  nextPermissionId,    \* next id requestMcpPermission / a direct caller mints
  nextClientId,        \* next id generateClientId returns
  pendingPermissions,  \* the Map id -> request, as the sequence of its values
  permissionClients,   \* the keys of the Map clientId -> ws
  requestListeners,    \* listeners of 'permission-request', registration order
  responseListeners,   \* listeners of 'permission-response', registration order
  channel,             \* per WebSocket: NONE, OPEN, CLOSING, CLOSED
  frames,              \* per WebSocket: the frames handed to ws.send, in order
  connectedAt,         \* per WebSocket: Len(bus) when its connection handler ran
  bus,                 \* every event emitted on the PermissionManager, in order
  origin,              \* per request id: none, mcp (has a waiter), direct (has none)
  waiter,              \* per request id: state of the promise of requestMcpPermission
  timer,               \* per request id: state of its setTimeout
  result,              \* per request id: the value the promise was resolved with
  resolveCalls,        \* per request id: how many times resolve(...) was called
  calls,               \* how many calls and connections the environment has made
  notFound,            \* the ids a respondToPermission call has answered not-found
  rejected,            \* a requestMcpPermission call threw on its validation
  sessionWorkspaces,   \* the Map session id -> workspace directory
  directories,         \* the directories that exist under the base workspace
  nextSessionId,       \* next id createSessionWorkspace mints
  nextClaudeId,        \* next session id the agent SDK mints
  chatSessionId,       \* per chat call: the sessionId of the request
  chatPhase,           \* per chat call: where its handler stands
  chatWorkspace,       \* per chat call: {sessionId, workspaceDir} it works with
  env,                 \* process.env.CLAUDE_WORKSPACE_DIR of the server process
  originalEnv,         \* per chat call: originalEnv of its EnvironmentManager
  finalSessionId,      \* per chat call: its local finalSessionId
  events,              \* per chat call: the events written to its response
  queryCalls,          \* per chat call: how many times it called query()
  mcpServers,          \* MCP_SERVERS['permission-prompt'].env, built at load
  now,                 \* the time in ms since the proxy call began
  proxyPhase,          \* the proxy call: off, idle, fetching, returned
  proxyEnv,            \* process.env.CLAUDE_WORKSPACE_DIR of the proxy process
  proxySessionDir,     \* the session directory of the chat call the proxy serves
  proxyArgs,           \* the arguments of the proxy call
  fetchRequest,        \* the fetch of the proxy call
  fetchCalls,          \* how many requests the proxy has sent
  fetchOutcome,        \* how the fetch ended
  proxyResult,         \* the permission response handed to the agent SDK
  messageIn,           \* the message given to the normalisation
  processed,           \* what processClaudeMessage returned for it
  fullResponse,        \* what processRegularChat has accumulated
  pieces,              \* the contents of the message events processStreamingChat wrote
  taken,               \* how many messages the agent has yielded
  accumulated,         \* processRegularChat has had its pass over the message
  clientPhase,         \* the turn of the browser: off, idle, sent, reading, returned, threw
  readCount,           \* how many events of the response the browser has handled
  assistantResponse,   \* assistantResponse of ClaudeContext.sendMessage
  errorShown,          \* ClaudeContext has appended an error message for the turn
  clientSessionId      \* sessionId of ClaudeContext

vars == <<nextPermissionId, nextClientId, pendingPermissions, permissionClients,
          requestListeners, responseListeners, channel, frames, connectedAt,
          bus, origin, waiter, timer, result, resolveCalls, calls, notFound,
          rejected, sessionWorkspaces, directories, nextSessionId, nextClaudeId,
          chatSessionId, chatPhase, chatWorkspace, env, originalEnv,
          finalSessionId, events, queryCalls, mcpServers, now, proxyPhase,
          proxyEnv, proxySessionDir, proxyArgs, fetchRequest, fetchCalls,
          fetchOutcome, proxyResult, messageIn, processed, fullResponse, pieces,
          taken, accumulated, clientPhase, readCount, assistantResponse,
          errorShown, clientSessionId>>

\* the state of the permission broker and of the fan-out
brokerVars == <<nextPermissionId, nextClientId, pendingPermissions, permissionClients,
                requestListeners, responseListeners, channel, frames, connectedAt,
                bus, origin, waiter, timer, result, resolveCalls, notFound, rejected>>

\* the state of the session workspaces and of the chat calls
sessionVars == <<sessionWorkspaces, directories, nextSessionId, nextClaudeId,
                 chatSessionId, chatPhase, chatWorkspace, env, originalEnv,
          finalSessionId, events, queryCalls, mcpServers>>

proxyVars == <<now, proxyPhase, proxyEnv, proxySessionDir, proxyArgs, fetchRequest,
               fetchCalls, fetchOutcome, proxyResult>>

\* the state of the browser's chat turn
clientVars == <<clientPhase, readCount, assistantResponse, errorShown, clientSessionId>>

streamVars == <<messageIn, processed, fullResponse, pieces, taken, accumulated,
                clientVars>>

\* ---- values ---------------------------------------------------------------
NoResult == [approved |-> FALSE, reason |-> "<unresolved>"]

TimeoutDenial == [approved |-> FALSE, reason |-> "Request timed out after 60 seconds"]

PermissionRequest(id, action, description) ==
  [id |-> id, action |-> action, description |-> description, status |-> "pending"]

RequestEvent(id) ==
  [type |-> "permission-request", id |-> id, approved |-> FALSE, reason |-> ""]

\* mutant: respondToPermission passes the reason on as it came
ReasonAsGiven(approved, reason) == reason

\* reason || (approved ? 'Approved by user' : 'Denied by user')
DefaultReason(approved, reason) ==
  IF reason # "" THEN reason
  ELSE IF approved THEN "Approved by user" ELSE "Denied by user"

ResponseEvent(id, approved, reason) ==
  [type |-> "permission-response", id |-> id, approved |-> approved,
   reason |-> DefaultReason(approved, reason)]

ConnectedFrame(clientId) ==
  [type |-> "connected", clientId |-> clientId, permissions |-> <<>>,
   id |-> 0, approved |-> FALSE, reason |-> ""]

PendingFrame(pending) ==
  [type |-> "pending-permissions", clientId |-> 0, permissions |-> pending,
   id |-> 0, approved |-> FALSE, reason |-> ""]

EventFrame(ev) ==
  [type |-> ev.type, clientId |-> 0, permissions |-> <<>>,
   id |-> ev.id, approved |-> ev.approved, reason |-> ev.reason]

WsListener(clientId) == [kind |-> "ws", client |-> clientId, id |-> 0]

WaiterListener(id) == [kind |-> "waiter", client |-> 0, id |-> id]

\* a request without sessionId (undefined, null or '')
NoSessionId == [kind |-> "none", n |-> 0]

\* mutant: createSessionWorkspace mints the same id for every call
SessionIdRepeated(n) == [kind |-> "session", n |-> 1]

\* `session_${Date.now()}_${Math.random().toString(36).substr(2, 9)}`: the
\* n-th id createSessionWorkspace mints
SessionId(n) == [kind |-> "session", n |-> n]

\* the n-th session id the agent SDK mints (message.session_id)
ClaudeSessionId(n) == [kind |-> "claude", n |-> n]

\* a session id of a client that this process never bound (an id from before
\* a restart, a mistyped one)
StaleSessionId == [kind |-> "client", n |-> 0]

BaseWorkspaceDir == "usercontent"

\* path.join(baseWorkspaceDir, sessionId)
PathJoin(base, sessionId) == [base |-> base, name |-> sessionId]

NoWorkspace == [sessionId |-> NoSessionId, workspaceDir |-> PathJoin("", NoSessionId)]

\* ---- process.env.CLAUDE_WORKSPACE_DIR -------------------------------------
\* the variable is not set: reading it gives undefined
EnvUnset == PathJoin("<unset>", NoSessionId)

\* the variable holds the string 'undefined'
EnvUndefinedString == PathJoin("undefined", NoSessionId)

\* the value the server was started with when it was started with one
\* (ENV CLAUDE_WORKSPACE_DIR=/data in the Dockerfile)
StartupDir == PathJoin("/data", NoSessionId)

\* this.originalEnv = null of a new EnvironmentManager
EnvNull == PathJoin("<null>", NoSessionId)

\* process.env.X = value: the value is converted to a string, undefined to
\* 'undefined'
EnvAssign(value) == IF value = EnvUnset THEN EnvUndefinedString ELSE value

\* mutant: restore() puts the saved value back only while the override still
\* holds the directory this call has set
RestoreIfOwn(saved, current, own) ==
  IF saved # EnvNull /\ current = own THEN EnvAssign(saved) ELSE current

\* EnvironmentManager.restore (own, the directory the call has set, is not
\* looked at)
Restore(saved, current, own) ==
  IF saved # EnvNull THEN EnvAssign(saved) ELSE current

\* ---- text ------------------------------------------------------------------
NL == "\n"

IsSpace(ch) == ch \in {" ", NL}

\* String.prototype.trim
RECURSIVE Trim(_)
Trim(t) ==
  IF t = <<>> THEN t
  ELSE IF IsSpace(Head(t)) THEN Trim(Tail(t))
  ELSE IF IsSpace(t[Len(t)]) THEN Trim(SubSeq(t, 1, Len(t) - 1))
  ELSE t

\* Array.prototype.join
RECURSIVE Join(_, _)
Join(texts, sep) ==
  IF texts = <<>> THEN <<>>
  ELSE IF Len(texts) = 1 THEN texts[1]
  ELSE texts[1] \o sep \o Join(Tail(texts), sep)

\* ---- messages of the agent SDK ------------------------------------------------
\* kind: string, object or other (null, a number); for an object: type, whether
\* message.message is there, whether message.message.content is an array, its
\* parts, and the result / content / text fields (<<>> when missing or empty)
Message(kind, str, type, hasMessage, contentIsArray, parts, resultText, content, text) ==
  [kind |-> kind, str |-> str, type |-> type, hasMessage |-> hasMessage,
   contentIsArray |-> contentIsArray, parts |-> parts, result |-> resultText,
   content |-> content, text |-> text]

Part(type, text) == [type |-> type, text |-> text]

AssistantMessage(parts) ==
  Message("object", <<>>, "assistant", TRUE, TRUE, parts, <<>>, <<>>, <<>>)

ResultMessage(resultText, content, text) ==
  Message("object", <<>>, "result", FALSE, FALSE, <<>>, resultText, content, text)

\* mutant: the text of every part, whatever its type
TextOfAllItems(parts) == [k \in 1..Len(parts) |-> parts[k].text]

\* the text of the text-typed parts, in order
TextItems(parts) ==
  LET textItems == SelectSeq(parts, LAMBDA item : item.type = "text")
  IN  [k \in 1..Len(textItems) |-> textItems[k].text]

\* mutant: the text field is looked at before the content field
ClassifyTextFirst(message) ==
  IF message.kind = "string"
    THEN [content |-> message.str, shouldSend |-> TRUE]
  ELSE IF message.kind # "object"
    THEN [content |-> <<>>, shouldSend |-> FALSE]
  ELSE IF message.type = "assistant" /\ message.hasMessage
    THEN IF message.contentIsArray
           THEN LET content == Join(TextItems(message.parts), <<NL>>)
                IN  [content |-> content, shouldSend |-> Len(content) > 0]
           ELSE [content |-> <<>>, shouldSend |-> FALSE]
  ELSE IF message.type = "result" /\ message.result # <<>>
    THEN [content |-> <<>>, shouldSend |-> FALSE]
  ELSE IF message.text # <<>>
    THEN [content |-> message.text, shouldSend |-> TRUE]
  ELSE IF message.content # <<>>
    THEN [content |-> message.content, shouldSend |-> TRUE]
  ELSE [content |-> <<>>, shouldSend |-> FALSE]

\* the if / else-if chain of processClaudeMessage
Classify(message) ==
  IF message.kind = "string"
    THEN [content |-> message.str, shouldSend |-> TRUE]
  ELSE IF message.kind # "object"
    THEN [content |-> <<>>, shouldSend |-> FALSE]
  ELSE IF message.type = "assistant" /\ message.hasMessage
    THEN IF message.contentIsArray
           THEN LET content == Join(TextItems(message.parts), <<NL>>)
                IN  [content |-> content, shouldSend |-> Len(content) > 0]
           ELSE [content |-> <<>>, shouldSend |-> FALSE]
  ELSE IF message.type = "result" /\ message.result # <<>>
    THEN [content |-> <<>>, shouldSend |-> FALSE]
  ELSE IF message.content # <<>>
    THEN [content |-> message.content, shouldSend |-> TRUE]
  ELSE IF message.text # <<>>
    THEN [content |-> message.text, shouldSend |-> TRUE]
  ELSE [content |-> <<>>, shouldSend |-> FALSE]

\* mutant: the last check looks at the length of the text, not of the trimmed text
ProcessClaudeMessageSendsBlank(message) ==
  LET r == Classify(message)
  IN  [content |-> r.content, shouldSend |-> r.shouldSend /\ r.content # <<>>]

\* MessageProcessor.processClaudeMessage
ProcessClaudeMessage(message) ==
  LET r == Classify(message)
  IN  [content |-> r.content,
       shouldSend |-> r.shouldSend /\ r.content # <<>> /\ Len(Trim(r.content)) > 0]

\* ---- events written to the response of a chat call ---------------------------
MessageEvent(content) == [type |-> "message", content |-> content, sessionId |-> NoSessionId]

CompleteEvent(sessionId) == [type |-> "complete", content |-> <<>>, sessionId |-> sessionId]

ErrorEvent == [type |-> "error", content |-> <<>>, sessionId |-> NoSessionId]

\* ---- values of the permission proxy (mcp-permission-server.js) ---------------
TmpDir == PathJoin("/tmp", NoSessionId)

HomeDir == PathJoin("/home", NoSessionId)

\* './usercontent', resolved against the working directory of the proxy
DefaultWorkspaceDir == PathJoin("./usercontent", NoSessionId)

\* a file path: the directory it starts with and the rest of it
FilePath(dir, rest) == [dir |-> dir, rest |-> rest]

\* details without file_path, or no details
NoFilePath == FilePath(PathJoin("", NoSessionId), <<>>)

\* /tmp/x.txt, /tmp/a/b.txt, /tmp/ itself, /tmp/a/../b.txt, /tmp/../x.txt,
\* a path outside /tmp, none
FilePathInputs ==
  {NoFilePath, FilePath(TmpDir, <<"x.txt">>), FilePath(TmpDir, <<"a", "b.txt">>),
   FilePath(TmpDir, <<>>), FilePath(TmpDir, <<"a", "..", "b.txt">>),
   FilePath(TmpDir, <<"..", "x.txt">>), FilePath(HomeDir, <<"x.txt">>)}

\* the arguments of the permission_prompt tool, after the two argument formats
\* are unpacked
ToolArgs(action, description, filePath) ==
  [action |-> action, description |-> description, filePath |-> filePath]

NoToolArgs == ToolArgs("", "", NoFilePath)

ToolArgsInputs ==
  {ToolArgs(a, "write a file", f) : a \in ActionInputs, f \in FilePathInputs}

\* what fetch resolves with: response.ok, what response.json() gives (an
\* object, null, or a body that is not JSON), typeof result.approved, its
\* truth value, and result.reason
HttpReply(ok, body, approvedType, approved, reason) ==
  [ok |-> ok, body |-> body, approvedType |-> approvedType, approved |-> approved,
   reason |-> reason]

NoReply == HttpReply(FALSE, "none", "missing", FALSE, "")

\* res.status(400).json({error: 'Action and description are required'})
BadRequestReply == HttpReply(FALSE, "object", "missing", FALSE, "")

\* res.json(response) with the value the promise of the endpoint resolved with
JsonReply(response) ==
  HttpReply(TRUE, "object", "boolean", response.approved, response.reason)

\* replies of a peer that is not the broker's submit endpoint, and the
\* broker's 500 reply
ForeignReplies ==
  {HttpReply(FALSE, "object", "boolean", FALSE, "Server error"),
   HttpReply(FALSE, "object", "boolean", TRUE, "ok"),
   HttpReply(TRUE, "text", "missing", FALSE, ""),
   HttpReply(TRUE, "null", "missing", FALSE, ""),
   HttpReply(TRUE, "object", "string", TRUE, "ok"),
   HttpReply(TRUE, "object", "missing", FALSE, "")}

\* how the fetch of a proxy call ended
FetchOutcome(kind, reply) == [kind |-> kind, reply |-> reply]

NoOutcome == FetchOutcome("none", NoReply)

\* the permission response handed to the agent SDK
PermissionResponse(behavior, kind, reason, updatedInput) ==
  [behavior |-> behavior, message |-> [kind |-> kind, reason |-> reason],
   updatedInput |-> updatedInput]

NoPermissionResponse == PermissionResponse("none", "none", "", NoFilePath)

\* the catch block: behavior 'deny', 'Permission request failed: ...'
FailedResponse(errorMessage) ==
  PermissionResponse("deny", "failed", errorMessage, NoFilePath)

\* process.env.WEB_APP_BASE_URL ? process.env.CLAUDE_WORKSPACE_DIR ||
\* './usercontent' : './usercontent'; MCP_SERVERS sets WEB_APP_BASE_URL
ProxyWorkspaceDir(envValue) ==
  IF envValue = EnvUnset THEN DefaultWorkspaceDir ELSE envValue

\* path.dirname of a directory
Dirname(dir) ==
  IF dir.name # NoSessionId THEN PathJoin(dir.base, NoSessionId)
  ELSE IF dir.base \in {"/data", "/tmp", "/home"} THEN PathJoin("/", NoSessionId)
  ELSE PathJoin(".", NoSessionId)

\* path.join(dir, ...kept, ...rest): the result is normalised, a '..' segment
\* takes back the segment before it, and the last segment of the directory
\* when none of the joined segments is left
RECURSIVE Normalize(_, _, _)
Normalize(dir, kept, rest) ==
  IF rest = <<>> THEN FilePath(dir, kept)
  ELSE IF Head(rest) # ".." THEN Normalize(dir, Append(kept, Head(rest)), Tail(rest))
  ELSE IF kept # <<>> THEN Normalize(dir, SubSeq(kept, 1, Len(kept) - 1), Tail(rest))
  ELSE Normalize(Dirname(dir), <<>>, Tail(rest))

\* the redirect of a /tmp path: startsWith('/tmp/'), strip the prefix,
\* path.join(absoluteWorkspaceDir, fileName) when a file name is left
RedirectTmp(filePath, workspaceDir) ==
  IF filePath.dir = TmpDir /\ filePath.rest # <<>>
    THEN Normalize(workspaceDir, <<>>, filePath.rest)
    ELSE filePath

\* mutant: the proxy takes any truthy approved of any reply as an approval
TranslateTruthy(reply, args, workspaceDir) ==
  IF reply.body # "object"
    THEN FailedResponse("format")
  ELSE IF reply.approvedType = "missing"
    THEN FailedResponse("approved")
  ELSE IF reply.approved
    THEN PermissionResponse("allow", "approved", "",
           IF args.filePath # NoFilePath
             THEN RedirectTmp(args.filePath, workspaceDir) ELSE NoFilePath)
  ELSE PermissionResponse("deny", "denied",
         IF reply.reason # "" THEN reply.reason ELSE "User denied the request",
         NoFilePath)

\* handlePermissionRequest after the fetch has resolved: the status check, the
\* parse and validation of the body, the response for the agent SDK
Translate(reply, args, workspaceDir) ==
  IF ~reply.ok
    THEN FailedResponse("status")
  ELSE IF reply.body = "text"
    THEN FailedResponse("json")
  ELSE IF reply.body # "object"
    THEN FailedResponse("format")
  ELSE IF reply.approvedType # "boolean"
    THEN FailedResponse("approved")
  ELSE IF reply.approved
    THEN PermissionResponse("allow", "approved", "",
           IF args.filePath # NoFilePath
             THEN RedirectTmp(args.filePath, workspaceDir) ELSE NoFilePath)
  ELSE PermissionResponse("deny", "denied",
         IF reply.reason # "" THEN reply.reason ELSE "User denied the request",
         NoFilePath)

\* the fetch of a proxy call: when the request reaches the endpoint, how long
\* the reply travels, whether it is lost on the way, when the proxy aborts
FetchRequest(deliverAt, downLatency, lost, abortAt) ==
  [deliverAt |-> deliverAt, downLatency |-> downLatency, lost |-> lost,
   abortAt |-> abortAt]

NoFetchRequest == FetchRequest(0, 0, FALSE, 0)

\* ---- values of the message normalisation --------------------------------------
NoMessage == Message("none", <<>>, "", FALSE, FALSE, <<>>, <<>>, <<>>, <<>>)

NotProcessed == [content |-> <<>>, shouldSend |-> FALSE, done |-> FALSE]

PartInputs ==
  {Part("text", <<"a">>), Part("text", <<"b">>), Part("text", <<>>),
   Part("text", <<" ">>), Part("tool_use", <<"t">>)}

PartsInputs ==
  {<<>>} \cup {<<p>> : p \in PartInputs} \cup {<<p, q>> : p, q \in PartInputs}
  \cup {<<Part("text", <<"a">>), Part("tool_use", <<"t">>), Part("text", <<"b">>)>>}

\* a field that is missing or empty, one with text, one with nothing but a space
TextInputs == {<<>>, <<"c">>, <<" ">>}

\* a bare string, an assistant message, an assistant message whose content is
\* no array, a result message, an object of another type, an object tagged
\* assistant without a message, and null
MessageInputs ==
  {Message("string", s, "", FALSE, FALSE, <<>>, <<>>, <<>>, <<>>) :
     s \in {<<>>, <<"s">>, <<" ">>, <<" ", "s", NL>>}}
  \cup {AssistantMessage(parts) : parts \in PartsInputs}
  \cup {Message("object", <<>>, "assistant", TRUE, FALSE, <<>>, <<>>, c, <<>>) : c \in TextInputs}
  \cup {ResultMessage(r, c, t) : r \in TextInputs, c \in TextInputs, t \in {<<>>, <<"t">>}}
  \cup {Message("object", <<>>, type, FALSE, FALSE, <<>>, <<>>, c, t) :
          type \in {"user", "assistant"}, c \in TextInputs, t \in {<<>>, <<"t">>}}
  \cup {Message("other", <<>>, "", FALSE, FALSE, <<>>, <<>>, <<>>, <<>>)}

\* ---- Map and listener-list helpers ---------------------------------------
SeqRange(s) == {s[i] : i \in 1..Len(s)}

PendingIds == {pendingPermissions[i].id : i \in 1..Len(pendingPermissions)}

MapHas(m, id) == \E i \in 1..Len(m) : m[i].id = id

\* mutant: a new key goes first
MapSetFirst(m, req) ==
  IF MapHas(m, req.id)
    THEN [i \in 1..Len(m) |-> IF m[i].id = req.id THEN req ELSE m[i]]
    ELSE <<req>> \o m

\* Map.prototype.set: a new key goes last, an existing key keeps its place
MapSet(m, req) ==
  IF MapHas(m, req.id)
    THEN [i \in 1..Len(m) |-> IF m[i].id = req.id THEN req ELSE m[i]]
    ELSE Append(m, req)

\* Map.prototype.delete
MapDelete(m, id) == SelectSeq(m, LAMBDA r : r.id # id)

\* EventEmitter.removeListener (every listener is registered once)
RemoveListener(ls, l) == SelectSeq(ls, LAMBDA x : x # l)

\* ws.readyState === WebSocket.OPEN
IsOpen(ch, clientId) == ch[clientId] = "OPEN"

\* ---- the part of the state a listener can touch -----------------------------
BrokerState ==
  [frames |-> frames, pending |-> pendingPermissions, respL |-> responseListeners,
   waiter |-> waiter, timer |-> timer, result |-> result,
   resolveCalls |-> resolveCalls, bus |-> bus]

Install(st) ==
  /\ frames' = st.frames
  /\ pendingPermissions' = st.pending
  /\ responseListeners' = st.respL
  /\ waiter' = st.waiter
  /\ timer' = st.timer
  /\ result' = st.result
  /\ resolveCalls' = st.resolveCalls
  /\ bus' = st.bus

\* resolve(value) of the promise created in requestMcpPermission: the first
\* call settles the promise and lets the caller return, later calls are ignored
Resolve(st, permissionId, value) ==
  [st EXCEPT !.resolveCalls[permissionId] = @ + 1,
             !.result[permissionId] = IF st.waiter[permissionId] = "waiting" THEN value ELSE @,
             !.waiter[permissionId] = "returned"]

\* clearTimeout(timeout)
ClearTimeout(st, permissionId) ==
  [st EXCEPT !.timer[permissionId] = IF @ = "armed" THEN "cleared" ELSE @]

\* onPermissionRequest / onPermissionResponse of one WebSocket client: a
\* channel that is not OPEN is skipped; ws.send on an OPEN socket queues the
\* frame and reports a failed write later, through 'error' and 'close'
WsSend(clientId, ev, st) ==
  IF IsOpen(channel, clientId)
    THEN [st EXCEPT !.frames[clientId] = Append(@, EventFrame(ev))]
    ELSE st

OnPermissionRequest(clientId, ev, st) == WsSend(clientId, ev, st)

\* mutant: the response listener of a client sends nothing
OnPermissionResponseSilent(clientId, ev, st) == st

OnPermissionResponse(clientId, ev, st) == WsSend(clientId, ev, st)

\* mutant: the response handler forgets clearTimeout
ResponseHandlerKeepsTimer(permissionId, ev, st) ==
  IF ev.id = permissionId
    THEN LET s2 == [st EXCEPT !.pending = MapDelete(@, permissionId)]
             s3 == [s2 EXCEPT !.respL = RemoveListener(@, WaiterListener(permissionId))]
         IN  Resolve(s3, permissionId, [approved |-> ev.approved, reason |-> ev.reason])
    ELSE st

\* mutant: the response handler leaves the registry entry in place
ResponseHandlerKeepsEntry(permissionId, ev, st) ==
  IF ev.id = permissionId
    THEN LET s1 == ClearTimeout(st, permissionId)
             s3 == [s1 EXCEPT !.respL = RemoveListener(@, WaiterListener(permissionId))]
         IN  Resolve(s3, permissionId, [approved |-> ev.approved, reason |-> ev.reason])
    ELSE st

\* responseHandler of one requestMcpPermission call
ResponseHandler(permissionId, ev, st) ==
  IF ev.id = permissionId
    THEN LET s1 == ClearTimeout(st, permissionId)
             s2 == [s1 EXCEPT !.pending = MapDelete(@, permissionId)]
             s3 == [s2 EXCEPT !.respL = RemoveListener(@, WaiterListener(permissionId))]
         IN  Resolve(s3, permissionId, [approved |-> ev.approved, reason |-> ev.reason])
    ELSE st

CallListener(l, ev, st) ==
  IF l.kind = "ws"
    THEN IF ev.type = "permission-request"
           THEN OnPermissionRequest(l.client, ev, st)
           ELSE OnPermissionResponse(l.client, ev, st)
    ELSE ResponseHandler(l.id, ev, st)

\* mutant: a listener whose channel is not open throws out of emit, so the
\* listeners registered after it are not called
RECURSIVE CallListenersUntilBroken(_, _, _)
CallListenersUntilBroken(ls, ev, st) ==
  IF ls = <<>> THEN st
  ELSE IF Head(ls).kind = "ws" /\ ~IsOpen(channel, Head(ls).client) THEN st
  ELSE CallListenersUntilBroken(Tail(ls), ev, CallListener(Head(ls), ev, st))

\* EventEmitter.emit: the listeners registered when emit starts, in order
RECURSIVE CallListeners(_, _, _)
CallListeners(ls, ev, st) ==
  IF ls = <<>> THEN st
  ELSE CallListeners(Tail(ls), ev, CallListener(Head(ls), ev, st))

Emit(ev, st) ==
  LET ls == IF ev.type = "permission-request" THEN requestListeners ELSE st.respL
  IN  CallListeners(ls, ev, [st EXCEPT !.bus = Append(@, ev)])

\* PermissionManager.addPermissionRequest
AddPermissionRequest(permissionRequest, st) ==
  Emit(RequestEvent(permissionRequest.id),
       [st EXCEPT !.pending = MapSet(@, permissionRequest)])

\* ---- the observer of the permission events (PermissionModal) -------------------
\* ws.onmessage: 'pending-permissions' replaces the list, 'permission-request'
\* appends to it, 'permission-response' filters the id out, 'connected'
\* leaves it; the list is kept as the ids of its entries
OnMessage(permissions, frame) ==
  IF frame.type = "pending-permissions"
    THEN [j \in 1..Len(frame.permissions) |-> frame.permissions[j].id]
  ELSE IF frame.type = "permission-request"
    THEN Append(permissions, frame.id)
  ELSE IF frame.type = "permission-response"
    THEN SelectSeq(permissions, LAMBDA p : p # frame.id)
  ELSE permissions

\* the list of an observer that has handled the frames fs, from useState([])
RECURSIVE Permissions(_)
Permissions(fs) ==
  IF fs = <<>> THEN <<>>
  ELSE OnMessage(Permissions(SubSeq(fs, 1, Len(fs) - 1)), fs[Len(fs)])

\* ---- initial state ------------------------------------------------------------
\* the server after it has loaded its modules
ServerInit ==
  /\ nextPermissionId = 1
  /\ nextClientId = 1
  /\ pendingPermissions = <<>>
  /\ permissionClients = {}
  /\ requestListeners = <<>>
  /\ responseListeners = <<>>
  /\ channel = [c \in ClientIds |-> "NONE"]
  /\ frames = [c \in ClientIds |-> <<>>]
  /\ connectedAt = [c \in ClientIds |-> 0]
  /\ bus = <<>>
  /\ origin = [i \in RequestIds |-> "none"]
  /\ waiter = [i \in RequestIds |-> "none"]
  /\ timer = [i \in RequestIds |-> "none"]
  /\ result = [i \in RequestIds |-> NoResult]
  /\ resolveCalls = [i \in RequestIds |-> 0]
  /\ notFound = {}
  /\ calls = 0
  /\ rejected = FALSE
  /\ sessionWorkspaces = <<>>
  /\ directories = {}
  /\ nextSessionId = 1
  /\ nextClaudeId = 1
  /\ chatSessionId = [c \in ChatIds |-> NoSessionId]
  /\ chatPhase = [c \in ChatIds |-> "none"]
  /\ chatWorkspace = [c \in ChatIds |-> NoWorkspace]
  /\ env \in {EnvUnset, StartupDir}
  /\ originalEnv = [c \in ChatIds |-> EnvNull]
  /\ finalSessionId = [c \in ChatIds |-> NoSessionId]
  /\ events = [c \in ChatIds |-> <<>>]
  /\ queryCalls = [c \in ChatIds |-> 0]
  /\ mcpServers = [CLAUDE_WORKSPACE_DIR |-> env]

\* no proxy process
ProxyOff ==
  /\ now = 0
  /\ proxyPhase = "off"
  /\ proxyEnv = EnvUnset
  /\ proxySessionDir = NoWorkspace.workspaceDir
  /\ proxyArgs = NoToolArgs
  /\ fetchRequest = NoFetchRequest
  /\ fetchCalls = 0
  /\ fetchOutcome = NoOutcome
  /\ proxyResult = NoPermissionResponse

\* no message under normalisation
StreamOff ==
  /\ messageIn = NoMessage
  /\ processed = NotProcessed
  /\ fullResponse = <<>>
  /\ pieces = <<>>
  /\ taken = 0
  /\ accumulated = FALSE

\* no browser in a chat turn
ClientOff ==
  /\ clientPhase = "off"
  /\ readCount = 0
  /\ assistantResponse = <<>>
  /\ errorShown = FALSE
  /\ clientSessionId = NoSessionId

Init == ServerInit /\ ProxyOff /\ StreamOff /\ ClientOff

\* one more call or connection of the environment (the client of the HTTP
\* API, a browser opening or losing its WebSocket)
EnvironmentCall ==
  /\ calls < MaxCalls
  /\ calls' = calls + 1

\* ---- broker operations ----------------------------------------------------
\* mutant: requestMcpPermission validates after it stored and published
RequestMcpPermissionLateCheck(action, description) ==
  /\ EnvironmentCall
  /\ LET permissionId == nextPermissionId
         s1 == AddPermissionRequest(
                 PermissionRequest(permissionId, action, description), BrokerState)
         s2 == [s1 EXCEPT !.timer[permissionId] = "armed",
                          !.waiter[permissionId] = "waiting",
                          !.respL = Append(@, WaiterListener(permissionId))]
     IN  /\ Install(IF action = "" \/ description = "" THEN s1 ELSE s2)
         /\ origin' = [origin EXCEPT ![permissionId] =
                         IF action = "" \/ description = "" THEN "direct" ELSE "mcp"]
         /\ rejected' = (rejected \/ action = "" \/ description = "")
         /\ nextPermissionId' = permissionId + 1
  /\ UNCHANGED <<nextClientId, permissionClients, requestListeners,
                 channel, connectedAt, notFound, sessionVars, proxyVars, streamVars>>

\* requestMcpPermission up to its await: validation, id, store + publish,
\* setTimeout, this.on('permission-response', responseHandler)
RequestMcpPermission(action, description) ==
  /\ EnvironmentCall
  /\ IF action = "" \/ description = ""
       THEN /\ rejected' = TRUE   \* throws 'Action and description are required'
            /\ UNCHANGED <<nextPermissionId, pendingPermissions, responseListeners,
                           frames, bus, origin, waiter, timer, result, resolveCalls>>
       ELSE /\ LET permissionId == nextPermissionId
                   s1 == AddPermissionRequest(
                           PermissionRequest(permissionId, action, description), BrokerState)
                   s2 == [s1 EXCEPT !.timer[permissionId] = "armed",
                                    !.waiter[permissionId] = "waiting",
                                    !.respL = Append(@, WaiterListener(permissionId))]
               IN  /\ Install(s2)
                   /\ origin' = [origin EXCEPT ![permissionId] = "mcp"]
                   /\ nextPermissionId' = permissionId + 1
            /\ UNCHANGED rejected
  /\ UNCHANGED <<nextClientId, permissionClients, requestListeners,
                 channel, connectedAt, notFound, sessionVars, proxyVars, streamVars>>

\* mutant: the timeout callback resolves but leaves the registry entry
TimeoutKeepsEntry(permissionId) ==
  /\ timer[permissionId] = "armed"
  /\ LET s1 == [BrokerState EXCEPT !.timer[permissionId] = "fired"]
     IN  Install(Resolve(s1, permissionId, TimeoutDenial))
  /\ UNCHANGED <<nextPermissionId, nextClientId, permissionClients,
                 requestListeners, channel, connectedAt, origin, calls, notFound,
                 rejected, sessionVars, proxyVars, streamVars>>

\* the setTimeout callback of one requestMcpPermission call, 60 s after it
Timeout(permissionId) ==
  /\ timer[permissionId] = "armed"
  /\ LET s1 == [BrokerState EXCEPT !.timer[permissionId] = "fired",
                                   !.pending = MapDelete(@, permissionId)]
     IN  Install(Resolve(s1, permissionId, TimeoutDenial))
  /\ UNCHANGED <<nextPermissionId, nextClientId, permissionClients,
                 requestListeners, channel, connectedAt, origin, calls, notFound,
                 rejected, sessionVars, proxyVars, streamVars>>

\* a caller of the public addPermissionRequest with a request it built itself
\* (a fresh id, no promise, no timer, no response listener)
AddPermissionRequestCall(action, description) ==
  /\ EnvironmentCall
  /\ LET permissionId == nextPermissionId
     IN  /\ Install(AddPermissionRequest(
                      PermissionRequest(permissionId, action, description), BrokerState))
         /\ origin' = [origin EXCEPT ![permissionId] = "direct"]
         /\ nextPermissionId' = permissionId + 1
  /\ UNCHANGED <<nextClientId, permissionClients, requestListeners,
                 channel, connectedAt, notFound,
                 rejected, sessionVars, proxyVars, streamVars>>

\* mutant: respondToPermission without the lookup of the pending request
RespondToPermissionUnchecked(permissionId, approved, reason) ==
  /\ permissionId <= nextPermissionId
  /\ EnvironmentCall
  /\ Install(Emit(ResponseEvent(permissionId, approved, reason), BrokerState))
  /\ notFound' = IF MapHas(pendingPermissions, permissionId)
                   THEN notFound ELSE notFound \cup {permissionId}
  /\ UNCHANGED <<nextPermissionId, nextClientId, permissionClients,
                 requestListeners, channel, connectedAt, origin,
                 rejected, sessionVars, proxyVars, streamVars>>

\* PermissionManager.respondToPermission; the caller names an id issued so
\* far or one that never was (nextPermissionId stands for all of those)
RespondToPermission(permissionId, approved, reason) ==
  /\ permissionId <= nextPermissionId
  /\ EnvironmentCall
  /\ IF ~MapHas(pendingPermissions, permissionId)
       THEN /\ notFound' = notFound \cup {permissionId}   \* {success: false, error}
            /\ UNCHANGED <<pendingPermissions, responseListeners, frames, bus,
                           waiter, timer, result, resolveCalls>>
       ELSE /\ Install(Emit(ResponseEvent(permissionId, approved, reason), BrokerState))
            /\ UNCHANGED notFound                          \* {success: true, ...}
  /\ UNCHANGED <<nextPermissionId, nextClientId, permissionClients,
                 requestListeners, channel, connectedAt, origin,
                 rejected, sessionVars, proxyVars, streamVars>>

\* ---- WebSocket fan-out ------------------------------------------------------
\* mutant: the connection handler registers the listeners but sends no snapshot
ConnectionWithoutSnapshot ==
  /\ EnvironmentCall
  /\ LET clientId == nextClientId
     IN  /\ permissionClients' = permissionClients \cup {clientId}
         /\ channel' = [channel EXCEPT ![clientId] = "OPEN"]
         /\ frames' = [frames EXCEPT ![clientId] = <<ConnectedFrame(clientId)>>]
         /\ requestListeners' = Append(requestListeners, WsListener(clientId))
         /\ responseListeners' = Append(responseListeners, WsListener(clientId))
         /\ connectedAt' = [connectedAt EXCEPT ![clientId] = Len(bus)]
         /\ nextClientId' = clientId + 1
  /\ UNCHANGED <<nextPermissionId, pendingPermissions, bus, origin, waiter,
                 timer, result, resolveCalls, notFound,
                 rejected, sessionVars, proxyVars, streamVars>>

\* mutant: the connection handler sends the snapshot before the 'connected' frame
ConnectionSnapshotFirst ==
  /\ EnvironmentCall
  /\ LET clientId == nextClientId
         pending == pendingPermissions
     IN  /\ permissionClients' = permissionClients \cup {clientId}
         /\ channel' = [channel EXCEPT ![clientId] = "OPEN"]
         /\ frames' = [frames EXCEPT ![clientId] =
                         IF Len(pending) > 0
                           THEN <<PendingFrame(pending), ConnectedFrame(clientId)>>
                           ELSE <<ConnectedFrame(clientId)>>]
         /\ requestListeners' = Append(requestListeners, WsListener(clientId))
         /\ responseListeners' = Append(responseListeners, WsListener(clientId))
         /\ connectedAt' = [connectedAt EXCEPT ![clientId] = Len(bus)]
         /\ nextClientId' = clientId + 1
  /\ UNCHANGED <<nextPermissionId, pendingPermissions, bus, origin, waiter,
                 timer, result, resolveCalls, notFound,
                 rejected, sessionVars, proxyVars, streamVars>>

\* wss.on('connection'): id, addClient, 'connected' frame, snapshot, listeners
Connection ==
  /\ EnvironmentCall
  /\ LET clientId == nextClientId
         pending == pendingPermissions
     IN  /\ permissionClients' = permissionClients \cup {clientId}
         /\ channel' = [channel EXCEPT ![clientId] = "OPEN"]
         /\ frames' = [frames EXCEPT ![clientId] =
                         IF Len(pending) > 0
                           THEN <<ConnectedFrame(clientId), PendingFrame(pending)>>
                           ELSE <<ConnectedFrame(clientId)>>]
         /\ requestListeners' = Append(requestListeners, WsListener(clientId))
         /\ responseListeners' = Append(responseListeners, WsListener(clientId))
         /\ connectedAt' = [connectedAt EXCEPT ![clientId] = Len(bus)]
         /\ nextClientId' = clientId + 1
  /\ UNCHANGED <<nextPermissionId, pendingPermissions, bus, origin, waiter,
                 timer, result, resolveCalls, notFound,
                 rejected, sessionVars, proxyVars, streamVars>>

\* the channel stops being usable (the peer closes, the network drops, a
\* write fails): readyState leaves OPEN; the ws library then emits 'error'
\* (only after a failure) and 'close'
ChannelBreaks(clientId) ==
  /\ EnvironmentCall
  /\ channel[clientId] = "OPEN"
  /\ channel' = [channel EXCEPT ![clientId] = "CLOSING"]
  /\ UNCHANGED <<nextPermissionId, nextClientId, pendingPermissions,
                 permissionClients, requestListeners, responseListeners, frames,
                 connectedAt, bus, origin, waiter, timer, result, resolveCalls,
                 notFound,
                 rejected, sessionVars, proxyVars, streamVars>>

\* mutant: the handlers remove every client listener, not only their own
DropClientAndOthers(clientId) ==
  /\ permissionClients' = permissionClients \ {clientId}
  /\ requestListeners' = SelectSeq(requestListeners, LAMBDA l : l.kind # "ws")
  /\ responseListeners' = SelectSeq(responseListeners, LAMBDA l : l.kind # "ws")

\* mutant: the handlers remove the client and leave its listeners on the bus
DropClientKeepsListeners(clientId) ==
  /\ permissionClients' = permissionClients \ {clientId}
  /\ UNCHANGED <<requestListeners, responseListeners>>

\* removeClient + removeEventListeners, shared by the two handlers below
DropClient(clientId) ==
  /\ permissionClients' = permissionClients \ {clientId}
  /\ requestListeners' = RemoveListener(requestListeners, WsListener(clientId))
  /\ responseListeners' = RemoveListener(responseListeners, WsListener(clientId))

\* ws.on('error'): emitted at most once, before 'close'
OnError(clientId) ==
  /\ channel[clientId] = "CLOSING"
  /\ clientId \in permissionClients
  /\ DropClient(clientId)
  /\ UNCHANGED <<nextPermissionId, nextClientId, pendingPermissions, channel,
                 frames, connectedAt, bus, origin, waiter, timer, result,
                 resolveCalls, calls, notFound,
                 rejected, sessionVars, proxyVars, streamVars>>

\* mutant: the close handler cancels the requests that are pending
OnCloseCancelsPending(clientId) ==
  /\ channel[clientId] = "CLOSING"
  /\ channel' = [channel EXCEPT ![clientId] = "CLOSED"]
  /\ DropClient(clientId)
  /\ pendingPermissions' = <<>>
  /\ UNCHANGED <<nextPermissionId, nextClientId, frames, connectedAt, bus,
                 origin, waiter, timer, result, resolveCalls, calls, notFound,
                 rejected, sessionVars, proxyVars, streamVars>>

\* ws.on('close'): emitted once, last
OnClose(clientId) ==
  /\ channel[clientId] = "CLOSING"
  /\ channel' = [channel EXCEPT ![clientId] = "CLOSED"]
  /\ DropClient(clientId)
  /\ UNCHANGED <<nextPermissionId, nextClientId, pendingPermissions, frames,
                 connectedAt, bus, origin, waiter, timer, result, resolveCalls,
                 calls, notFound,
                 rejected, sessionVars, proxyVars, streamVars>>

\* ---- session workspaces --------------------------------------------------
\* Map.prototype.has / get / set on the session map
Has(m, sessionId) == sessionId \in DOMAIN m

Set(m, sessionId, workspaceDir) ==
  [k \in DOMAIN m \cup {sessionId} |-> IF k = sessionId THEN workspaceDir ELSE m[k]]

\* one more chat request of a client
ChatCall ==
  /\ calls < MaxChats
  /\ calls' = calls + 1

\* mutant: getSessionWorkspace creates a workspace whether the id is known or not
ProcessChatAlwaysCreates(sessionId) ==
  /\ ChatCall
  /\ sessionId \in {NoSessionId, StaleSessionId} \/ Has(sessionWorkspaces, sessionId)
  /\ LET call == calls + 1
     IN  /\ chatSessionId' = [chatSessionId EXCEPT ![call] = sessionId]
         /\ originalEnv' = [originalEnv EXCEPT ![call] = env]
         /\ chatWorkspace' = [chatWorkspace EXCEPT ![call] =
              [sessionId |-> SessionId(nextSessionId),
               workspaceDir |-> PathJoin(BaseWorkspaceDir, SessionId(nextSessionId))]]
         /\ chatPhase' = [chatPhase EXCEPT ![call] = "ensureDir"]
         /\ nextSessionId' = nextSessionId + 1
  /\ UNCHANGED <<sessionWorkspaces, directories, nextClaudeId, env, finalSessionId,
                 events, queryCalls,
                 mcpServers, brokerVars, proxyVars, streamVars>>

\* processStreamingChat / processRegularChat up to the first await:
\* envManager.backup(), then getSessionWorkspace(sessionId, base) looks the id
\* up; a known id returns at once and the call sets the override, takes the
\* id as its finalSessionId and starts query(); otherwise
\* createSessionWorkspace mints an id and a directory name and awaits
\* fs.ensureDir.  The client sends no id, an id that is a key of the map, or
\* one that is not.
ProcessChat(sessionId) ==
  /\ ChatCall
  /\ sessionId \in {NoSessionId, StaleSessionId} \/ Has(sessionWorkspaces, sessionId)
  /\ LET call == calls + 1
     IN  /\ chatSessionId' = [chatSessionId EXCEPT ![call] = sessionId]
         /\ originalEnv' = [originalEnv EXCEPT ![call] = env]
         /\ IF sessionId # NoSessionId /\ Has(sessionWorkspaces, sessionId)
              THEN /\ chatWorkspace' = [chatWorkspace EXCEPT ![call] =
                        [sessionId |-> sessionId,
                         workspaceDir |-> sessionWorkspaces[sessionId]]]
                   /\ chatPhase' = [chatPhase EXCEPT ![call] = "query"]
                   /\ env' = EnvAssign(sessionWorkspaces[sessionId])
                   /\ finalSessionId' = [finalSessionId EXCEPT ![call] = sessionId]
                   /\ queryCalls' = [queryCalls EXCEPT ![call] = @ + 1]
                   /\ UNCHANGED nextSessionId
              ELSE /\ chatWorkspace' = [chatWorkspace EXCEPT ![call] =
                        [sessionId |-> SessionId(nextSessionId),
                         workspaceDir |-> PathJoin(BaseWorkspaceDir, SessionId(nextSessionId))]]
                   /\ chatPhase' = [chatPhase EXCEPT ![call] = "ensureDir"]
                   /\ nextSessionId' = nextSessionId + 1
                   /\ UNCHANGED <<env, finalSessionId, queryCalls>>
  /\ UNCHANGED <<sessionWorkspaces, directories, nextClaudeId, events,
                 mcpServers, brokerVars, proxyVars, streamVars>>

\* await fs.ensureDir(sessionWorkspaceDir) resolves; fs.writeFile is started
EnsureDir(call) ==
  /\ chatPhase[call] = "ensureDir"
  /\ directories' = directories \cup {chatWorkspace[call].workspaceDir}
  /\ chatPhase' = [chatPhase EXCEPT ![call] = "writeFile"]
  /\ UNCHANGED <<sessionWorkspaces, nextSessionId, nextClaudeId, chatSessionId,
                 chatWorkspace, env, originalEnv, finalSessionId, events,
                 queryCalls, calls,
                 mcpServers, brokerVars, proxyVars, streamVars>>

\* mutant: getSessionWorkspace returns the new workspace without recording it
WriteFileWithoutSet(call) ==
  /\ chatPhase[call] = "writeFile"
  /\ chatPhase' = [chatPhase EXCEPT ![call] = "query"]
  /\ env' = EnvAssign(chatWorkspace[call].workspaceDir)
  /\ finalSessionId' = [finalSessionId EXCEPT ![call] = chatWorkspace[call].sessionId]
  /\ queryCalls' = [queryCalls EXCEPT ![call] = @ + 1]
  /\ UNCHANGED <<sessionWorkspaces, directories, nextSessionId, nextClaudeId,
                 chatSessionId, chatWorkspace, originalEnv, events, calls,
                 mcpServers, brokerVars, proxyVars, streamVars>>

\* await fs.writeFile(readmeFile, ...) resolves: createSessionWorkspace
\* returns, getSessionWorkspace records the binding and returns, the chat call
\* sets the override, takes the minted id as its finalSessionId, builds its
\* options and starts query()
WriteFile(call) ==
  /\ chatPhase[call] = "writeFile"
  /\ sessionWorkspaces' = Set(sessionWorkspaces, chatWorkspace[call].sessionId,
                              chatWorkspace[call].workspaceDir)
  /\ chatPhase' = [chatPhase EXCEPT ![call] = "query"]
  /\ env' = EnvAssign(chatWorkspace[call].workspaceDir)
  /\ finalSessionId' = [finalSessionId EXCEPT ![call] = chatWorkspace[call].sessionId]
  /\ queryCalls' = [queryCalls EXCEPT ![call] = @ + 1]
  /\ UNCHANGED <<directories, nextSessionId, nextClaudeId, chatSessionId,
                 chatWorkspace, originalEnv, events, calls,
                 mcpServers, brokerVars, proxyVars, streamVars>>

\* fs.ensureDir or fs.writeFile rejects: createSessionWorkspace rethrows,
\* getSessionWorkspace records nothing and the chat call ends with the error:
\* the finally block restores the override, the catch block of the endpoint
\* writes the error event
CreateSessionWorkspaceFails(call) ==
  /\ chatPhase[call] \in {"ensureDir", "writeFile"}
  /\ chatPhase' = [chatPhase EXCEPT ![call] = "failed"]
  /\ chatWorkspace' = [chatWorkspace EXCEPT ![call] = NoWorkspace]
  /\ env' = Restore(originalEnv[call], env, chatWorkspace[call].workspaceDir)
  /\ events' = [events EXCEPT ![call] = Append(@, ErrorEvent)]
  /\ originalEnv' = [originalEnv EXCEPT ![call] = EnvNull]
  /\ UNCHANGED <<sessionWorkspaces, directories, nextSessionId, nextClaudeId,
                 chatSessionId, finalSessionId, queryCalls, calls,
                 mcpServers, brokerVars, proxyVars, streamVars>>

\* mutant: the agent SDK announces the same session id to every call
InitIdsRepeated(call) == {ClaudeSessionId(1)}

\* the session ids the agent SDK can announce to a call: a new one for a new
\* session; for options.resume = sessionId the resumed id or a new one
InitIds(call) ==
  IF chatSessionId[call] = NoSessionId
    THEN {ClaudeSessionId(nextClaudeId)}
    ELSE {chatSessionId[call], ClaudeSessionId(nextClaudeId)}

\* mutant: the rebind moves the directory to the agent's id and drops the
\* other keys bound to it
RebindMoves(m, claudeSessionId, sessionWorkspaceDir) ==
  [k \in {x \in DOMAIN m : m[x] # sessionWorkspaceDir} \cup {claudeSessionId} |->
     IF k = claudeSessionId THEN sessionWorkspaceDir ELSE m[k]]

\* workspaceManager.sessionWorkspaces.set(claudeSessionId, sessionWorkspaceDir)
Rebind(m, claudeSessionId, sessionWorkspaceDir) ==
  Set(m, claudeSessionId, sessionWorkspaceDir)

\* mutant: an init message of a call started with a session id rebinds too
HandleSessionInitAlwaysBinds(call, claudeSessionId) ==
  /\ chatPhase[call] = "query"
  /\ claudeSessionId \in InitIds(call)
  /\ sessionWorkspaces' =
       Rebind(sessionWorkspaces, claudeSessionId, chatWorkspace[call].workspaceDir)
  /\ nextClaudeId' = IF claudeSessionId = ClaudeSessionId(nextClaudeId)
                       THEN nextClaudeId + 1 ELSE nextClaudeId
  /\ finalSessionId' = [finalSessionId EXCEPT ![call] = claudeSessionId]
  /\ chatPhase' = [chatPhase EXCEPT ![call] = "init"]
  /\ UNCHANGED <<directories, nextSessionId, chatSessionId, chatWorkspace, env,
                 originalEnv, events, queryCalls, calls,
                 mcpServers, brokerVars, proxyVars, streamVars>>

\* one pass of the for-await loop with the system/init message of the query:
\* MessageProcessor.handleSessionInit, then finalSessionId = sessionIdUpdate
HandleSessionInit(call, claudeSessionId) ==
  /\ chatPhase[call] = "query"
  /\ claudeSessionId \in InitIds(call)
  /\ sessionWorkspaces' =
       IF chatSessionId[call] = NoSessionId
         THEN Rebind(sessionWorkspaces, claudeSessionId, chatWorkspace[call].workspaceDir)
         ELSE sessionWorkspaces
  /\ nextClaudeId' = IF claudeSessionId = ClaudeSessionId(nextClaudeId)
                       THEN nextClaudeId + 1 ELSE nextClaudeId
  /\ finalSessionId' = [finalSessionId EXCEPT ![call] = claudeSessionId]
  /\ chatPhase' = [chatPhase EXCEPT ![call] = "init"]
  /\ UNCHANGED <<directories, nextSessionId, chatSessionId, chatWorkspace, env,
                 originalEnv, events, queryCalls, calls,
                 mcpServers, brokerVars, proxyVars, streamVars>>

\* the messages the query of a chat call yields besides system/init
StreamMessages ==
  {AssistantMessage(<<Part("text", <<"h", "i">>)>>),
   ResultMessage(<<"o", "k">>, <<>>, <<>>)}

\* the text events a call has written
TextEvents(call) == SelectSeq(events[call], LAMBDA e : e.type = "message")

\* the text events of the calls 1..n
RECURSIVE SumTexts(_)
SumTexts(n) == IF n = 0 THEN 0 ELSE Len(TextEvents(n)) + SumTexts(n - 1)

\* the text events the chat calls may send in all: MaxChunks for the one call
\* of a browser's turn
TextBudget == IF clientPhase = "off" THEN MaxTexts ELSE MaxChunks

\* one pass of the for-await loop with another message:
\* MessageProcessor.processClaudeMessage, then res.write when shouldSend
QueryMessage(call, message) ==
  /\ chatPhase[call] \in {"query", "init"}
  /\ SumTexts(MaxChats) < TextBudget
  /\ LET r == ProcessClaudeMessage(message)
     IN  events' = [events EXCEPT ![call] =
                      IF r.shouldSend THEN Append(@, MessageEvent(r.content)) ELSE @]
  /\ UNCHANGED <<sessionWorkspaces, directories, nextSessionId, nextClaudeId,
                 chatSessionId, chatPhase, chatWorkspace, env, originalEnv,
                 finalSessionId, queryCalls, calls,
                 mcpServers, brokerVars, proxyVars, streamVars>>

\* mutant: a completed stream is closed without a completion event
QueryEndsSilently(call) ==
  /\ chatPhase[call] \in {"query", "init"}
  /\ chatPhase' = [chatPhase EXCEPT ![call] = "done"]
  /\ env' = Restore(originalEnv[call], env, chatWorkspace[call].workspaceDir)
  /\ originalEnv' = [originalEnv EXCEPT ![call] = EnvNull]
  /\ finalSessionId' = [finalSessionId EXCEPT ![call] = NoSessionId]
  /\ UNCHANGED <<sessionWorkspaces, directories, nextSessionId, nextClaudeId,
                 chatSessionId, chatWorkspace, events, queryCalls, calls,
                 mcpServers, brokerVars, proxyVars, streamVars>>

\* the for-await loop ends: the completion event is written with
\* finalSessionId, the response is ended, the finally block restores the
\* override; the call's envManager and finalSessionId are gone with it
QueryEnds(call) ==
  /\ chatPhase[call] \in {"query", "init"}
  /\ chatPhase' = [chatPhase EXCEPT ![call] = "done"]
  /\ events' = [events EXCEPT ![call] = Append(@, CompleteEvent(finalSessionId[call]))]
  /\ env' = Restore(originalEnv[call], env, chatWorkspace[call].workspaceDir)
  /\ originalEnv' = [originalEnv EXCEPT ![call] = EnvNull]
  /\ finalSessionId' = [finalSessionId EXCEPT ![call] = NoSessionId]
  /\ UNCHANGED <<sessionWorkspaces, directories, nextSessionId, nextClaudeId,
                 chatSessionId, chatWorkspace, queryCalls, calls,
                 mcpServers, brokerVars, proxyVars, streamVars>>

\* mutant: the call runs the query again after it has raised
QueryRaisesRetries(call) ==
  /\ chatPhase[call] \in {"query", "init"}
  /\ queryCalls[call] < 2
  /\ queryCalls' = [queryCalls EXCEPT ![call] = @ + 1]
  /\ UNCHANGED <<sessionWorkspaces, directories, nextSessionId, nextClaudeId,
                 chatSessionId, chatPhase, chatWorkspace, env, originalEnv,
                 finalSessionId, events, calls,
                 mcpServers, brokerVars, proxyVars, streamVars>>

\* query() throws in the for-await loop: the finally block restores the
\* override, the catch block of the endpoint writes the error event and ends
\* the response
QueryRaises(call) ==
  /\ chatPhase[call] \in {"query", "init"}
  /\ chatPhase' = [chatPhase EXCEPT ![call] = "raised"]
  /\ env' = Restore(originalEnv[call], env, chatWorkspace[call].workspaceDir)
  /\ events' = [events EXCEPT ![call] = Append(@, ErrorEvent)]
  /\ originalEnv' = [originalEnv EXCEPT ![call] = EnvNull]
  /\ finalSessionId' = [finalSessionId EXCEPT ![call] = NoSessionId]
  /\ UNCHANGED <<sessionWorkspaces, directories, nextSessionId, nextClaudeId,
                 chatSessionId, chatWorkspace, queryCalls, calls,
                 mcpServers, brokerVars, proxyVars, streamVars>>

\* ---- the permission proxy ---------------------------------------------------
\* the session directory of the first chat call: path.join(WORKSPACE_DIR, id)
FirstSessionDir(startupValue) ==
  PathJoin(IF startupValue = EnvUnset THEN BaseWorkspaceDir ELSE startupValue.base,
           SessionId(1))

\* CLAUDE_WORKSPACE_DIR of the proxy process: MCP_SERVERS.env carries the
\* variable when the server was started with it; otherwise the proxy has what
\* the processes of the agent SDK pass down: nothing, or the override of the
\* server when query() began
SpawnEnvs(servers, sessionDir) ==
  IF servers.CLAUDE_WORKSPACE_DIR # EnvUnset
    THEN {servers.CLAUDE_WORKSPACE_DIR}
    ELSE {EnvUnset, sessionDir}

\* the agent SDK has started the proxy for the query of the first chat call
ProxyInit ==
  /\ ServerInit
  /\ StreamOff
  /\ ClientOff
  /\ now = 0
  /\ proxyPhase = "idle"
  /\ proxySessionDir = FirstSessionDir(mcpServers.CLAUDE_WORKSPACE_DIR)
  /\ proxyEnv \in SpawnEnvs(mcpServers, proxySessionDir)
  /\ proxyArgs = NoToolArgs
  /\ fetchRequest = NoFetchRequest
  /\ fetchCalls = 0
  /\ fetchOutcome = NoOutcome
  /\ proxyResult = NoPermissionResponse

LatencyInputs == {0, MaxLatencyMs}

\* mutant: the proxy waits no longer than the broker
HandlePermissionRequestShortWait(args, upLatency, downLatency) ==
  /\ proxyPhase = "idle"
  /\ proxyPhase' = "fetching"
  /\ proxyArgs' = args
  /\ fetchRequest' = FetchRequest(now + upLatency, downLatency, FALSE,
                                  now + BrokerTimeoutMs)
  /\ fetchCalls' = fetchCalls + 1
  /\ UNCHANGED <<now, proxyEnv, proxySessionDir, fetchOutcome, proxyResult,
                 calls, brokerVars, sessionVars, streamVars>>

\* handlePermissionRequest up to its await: the arguments are unpacked, the
\* abort timer is set, the request is sent
HandlePermissionRequest(args, upLatency, downLatency) ==
  /\ proxyPhase = "idle"
  /\ proxyPhase' = "fetching"
  /\ proxyArgs' = args
  /\ fetchRequest' = FetchRequest(now + upLatency, downLatency, FALSE,
                                  now + ProxyTimeoutMs)
  /\ fetchCalls' = fetchCalls + 1
  /\ UNCHANGED <<now, proxyEnv, proxySessionDir, fetchOutcome, proxyResult,
                 calls, brokerVars, sessionVars, streamVars>>

\* the request of the proxy has reached the submit endpoint
Delivered == nextPermissionId > 1 \/ rejected

\* the request is on its way and nothing has come of it yet
InTransit ==
  /\ proxyPhase = "fetching"
  /\ ~fetchRequest.lost
  /\ ~Delivered
  /\ now = fetchRequest.deliverAt

\* POST /api/permissions/request-mcp receives the request of the proxy
Deliver ==
  /\ InTransit
  /\ RequestMcpPermission(proxyArgs.action, proxyArgs.description)

\* the 60 s timer of the endpoint fires
BrokerTimeout ==
  /\ now = fetchRequest.deliverAt + BrokerTimeoutMs
  /\ Timeout(1)

\* the endpoint has answered: 400, or res.json(response)
HasReply == rejected \/ (nextPermissionId > 1 /\ waiter[1] = "returned")

BrokerReply == IF rejected THEN BadRequestReply ELSE JsonReply(result[1])

ReplyReadyAt ==
  IF timer[1] = "fired"
    THEN fetchRequest.deliverAt + BrokerTimeoutMs + fetchRequest.downLatency
    ELSE fetchRequest.deliverAt + fetchRequest.downLatency

\* the end of a proxy call with what the fetch came to
Return(outcome, response) ==
  /\ proxyPhase' = "returned"
  /\ fetchOutcome' = outcome
  /\ proxyResult' = response
  /\ UNCHANGED <<now, proxyEnv, proxySessionDir, proxyArgs, fetchRequest, fetchCalls,
                 calls, brokerVars, sessionVars, streamVars>>

\* fetch resolves with the reply of the endpoint
FetchResolves ==
  /\ proxyPhase = "fetching"
  /\ ~fetchRequest.lost
  /\ HasReply
  /\ now >= ReplyReadyAt
  /\ Return(FetchOutcome("reply", BrokerReply),
            Translate(BrokerReply, proxyArgs, ProxyWorkspaceDir(proxyEnv)))

\* fetch resolves with the reply of something else that listens on the port,
\* or with a 500 of the server
ForeignReply(reply) ==
  /\ InTransit
  /\ Return(FetchOutcome("reply", reply),
            Translate(reply, proxyArgs, ProxyWorkspaceDir(proxyEnv)))

\* fetch rejects: nothing listens on the port, or the connection breaks
FetchRejects ==
  /\ InTransit
  /\ Return(FetchOutcome("network", NoReply), FailedResponse("fetch failed"))

\* the request or its reply is lost on the way
FetchStalls ==
  /\ proxyPhase = "fetching"
  /\ ~fetchRequest.lost
  /\ now = fetchRequest.deliverAt
  /\ fetchRequest' = [fetchRequest EXCEPT !.lost = TRUE]
  /\ UNCHANGED <<now, proxyPhase, proxyEnv, proxySessionDir, proxyArgs, fetchCalls,
                 fetchOutcome, proxyResult, calls, brokerVars, sessionVars, streamVars>>

\* the abort timer of the proxy fires: fetch rejects with an AbortError
Abort ==
  /\ proxyPhase = "fetching"
  /\ now = fetchRequest.abortAt
  /\ Return(FetchOutcome("aborted", NoReply),
            FailedResponse("This operation was aborted"))

\* something is due at the present time
Due ==
  \/ InTransit
  \/ timer[1] = "armed" /\ now = fetchRequest.deliverAt + BrokerTimeoutMs
  \/ proxyPhase = "fetching" /\ ~fetchRequest.lost /\ HasReply /\ now >= ReplyReadyAt
  \/ proxyPhase = "fetching" /\ now = fetchRequest.abortAt

Deadlines ==
  {fetchRequest.deliverAt,
   fetchRequest.deliverAt + fetchRequest.downLatency,
   fetchRequest.deliverAt + BrokerTimeoutMs,
   fetchRequest.deliverAt + BrokerTimeoutMs + fetchRequest.downLatency,
   fetchRequest.abortAt}

\* time passes up to the next deadline
Tick ==
  /\ proxyPhase = "fetching" \/ (proxyPhase = "returned" /\ timer[1] = "armed")
  /\ ~Due
  /\ \E d \in Deadlines :
       /\ d > now
       /\ \A e \in Deadlines : e > now => d <= e
       /\ now' = d
  /\ UNCHANGED <<proxyPhase, proxyEnv, proxySessionDir, proxyArgs, fetchRequest,
                 fetchCalls, fetchOutcome, proxyResult, calls, brokerVars,
                 sessionVars, streamVars>>

\* ---- the message normalisation --------------------------------------------
\* the agent has yielded its first message to a streaming and to a regular
\* chat call
NormalizeInit ==
  /\ ServerInit
  /\ ProxyOff
  /\ ClientOff
  /\ messageIn \in MessageInputs
  /\ processed = NotProcessed
  /\ fullResponse = <<>>
  /\ pieces = <<>>
  /\ taken = 1
  /\ accumulated = FALSE

\* one pass of the loop of processStreamingChat over the message: a message
\* event is written when shouldSend
ProcessMessage ==
  /\ ~processed.done
  /\ LET r == ProcessClaudeMessage(messageIn)
     IN  /\ processed' = [content |-> r.content, shouldSend |-> r.shouldSend, done |-> TRUE]
         /\ pieces' = IF r.shouldSend THEN Append(pieces, r.content) ELSE pieces
  /\ UNCHANGED <<messageIn, fullResponse, taken, accumulated, clientVars, calls,
                 brokerVars, sessionVars, proxyVars>>

\* what one pass of the loop of processRegularChat adds to fullResponse
RegularText(m) ==
  IF m.kind = "string" THEN m.str
  ELSE IF m.kind # "object" THEN <<>>
  ELSE IF m.type = "assistant" /\ m.hasMessage
    THEN IF m.contentIsArray
           THEN LET textContent == Join(TextItems(m.parts), <<NL>>)
                IN  IF textContent # <<>> /\ Len(Trim(textContent)) > 0
                      THEN textContent ELSE <<>>
           ELSE <<>>
  ELSE IF m.type = "result" /\ m.result # <<>> THEN <<>>
  ELSE IF m.content # <<>> THEN m.content
  ELSE IF m.text # <<>> THEN m.text
  ELSE <<>>

\* one pass of the loop of processRegularChat over the message:
\* fullResponse += ...
AccumulateMessage ==
  /\ processed.done
  /\ ~accumulated
  /\ fullResponse' = fullResponse \o RegularText(messageIn)
  /\ accumulated' = TRUE
  /\ UNCHANGED <<messageIn, processed, pieces, taken, clientVars, calls, brokerVars,
                 sessionVars, proxyVars>>

\* the messages the agent yields after its first: a string, a string of
\* whitespace, an assistant message with text, one without, a result
FollowInputs ==
  {Message("string", s, "", FALSE, FALSE, <<>>, <<>>, <<>>, <<>>) : s \in {<<"s">>, <<" ">>}}
  \cup {AssistantMessage(<<Part("text", <<"b">>)>>),
        AssistantMessage(<<Part("tool_use", <<"t">>)>>),
        ResultMessage(<<"c">>, <<>>, <<>>)}

\* the agent yields its next message to both loops
NextMessage(m) ==
  /\ processed.done
  /\ accumulated
  /\ taken < MaxMessages
  /\ taken' = taken + 1
  /\ messageIn' = m
  /\ processed' = NotProcessed
  /\ accumulated' = FALSE
  /\ UNCHANGED <<fullResponse, pieces, clientVars, calls, brokerVars, sessionVars,
                 proxyVars>>

\* ---- the chat turn of the browser (ClaudeContext, ClaudeService) ---------------
\* the browser is connected and no turn is running
ClientInit ==
  /\ ServerInit
  /\ ProxyOff
  /\ StreamOff
  /\ clientPhase = "idle"
  /\ readCount = 0
  /\ assistantResponse = <<>>
  /\ errorShown = FALSE
  /\ clientSessionId = NoSessionId

normalizeVars == <<messageIn, processed, fullResponse, pieces, taken, accumulated>>

\* ClaudeContext.sendMessage up to the await of the fetch in
\* ClaudeService.sendMessage: assistantResponse = '', POST /api/chat/stream
SendMessage ==
  /\ clientPhase = "idle"
  /\ clientPhase' = "sent"
  /\ assistantResponse' = <<>>
  /\ UNCHANGED <<readCount, errorShown, clientSessionId, normalizeVars, calls,
                 brokerVars, sessionVars, proxyVars>>

\* the request of the browser reaches the endpoint: the chat call begins
RequestArrives ==
  /\ clientPhase = "sent"
  /\ calls = 0
  /\ ProcessChat(clientSessionId)

\* the response headers have come: response.ok, the reader is taken
ResponseBegins ==
  /\ clientPhase = "sent"
  /\ calls = 1
  /\ clientPhase' = "reading"
  /\ UNCHANGED <<readCount, assistantResponse, errorShown, clientSessionId,
                 normalizeVars, calls, brokerVars, sessionVars, proxyVars>>

\* fetch rejects or the status is no success: sendMessage throws, the catch
\* block of ClaudeContext appends an error message
FetchFails ==
  /\ clientPhase = "sent"
  /\ calls = 0
  /\ clientPhase' = "threw"
  /\ errorShown' = TRUE
  /\ UNCHANGED <<readCount, assistantResponse, clientSessionId, normalizeVars, calls,
                 brokerVars, sessionVars, proxyVars>>

\* the loop body of ClaudeContext.sendMessage for a chunk with content
JoinChunk(response, content) ==
  IF Len(Trim(response)) > 0 /\ Len(Trim(content)) > 0
    THEN response \o <<NL, NL>> \o content
    ELSE response \o content

\* one 'data: ' line of the response in ClaudeService.sendMessage, and what
\* ClaudeContext does with the chunk it yields: a message event with content
\* is yielded and joined; a complete event yields its sessionId, when it has
\* one, and returns; the throw for an error event is caught by the catch
\* around JSON.parse, which logs a warning, and the loop goes on
ReadEvent ==
  /\ clientPhase = "reading"
  /\ readCount < Len(events[1])
  /\ readCount' = readCount + 1
  /\ LET eventData == events[1][readCount + 1]
     IN  /\ assistantResponse' =
              IF eventData.type = "message" /\ eventData.content # <<>>
                THEN JoinChunk(assistantResponse, eventData.content)
                ELSE assistantResponse
         /\ clientSessionId' =
              IF eventData.type = "complete" /\ eventData.sessionId # NoSessionId
                THEN eventData.sessionId ELSE clientSessionId
         /\ clientPhase' = IF eventData.type = "complete" THEN "returned" ELSE "reading"
  /\ UNCHANGED <<errorShown, normalizeVars, calls, brokerVars, sessionVars, proxyVars>>

\* reader.read() gives done after res.end(): the loop breaks and the
\* generator returns; ClaudeContext leaves its loop and ends the turn
ReadDone ==
  /\ clientPhase = "reading"
  /\ readCount = Len(events[1])
  /\ chatPhase[1] \in {"done", "raised", "failed"}
  /\ clientPhase' = "returned"
  /\ UNCHANGED <<readCount, assistantResponse, errorShown, clientSessionId,
                 normalizeVars, calls, brokerVars, sessionVars, proxyVars>>

\* ---- specifications ----------------------------------------------------------
Next ==
  \/ \E a \in ActionInputs, d \in DescriptionInputs : RequestMcpPermission(a, d)
  \/ \E i \in RequestIds : Timeout(i)
  \/ AddPermissionRequestCall("Write", "write a file")
  \/ \E i \in RequestIds, ok \in BOOLEAN, r \in ReasonInputs : RespondToPermission(i, ok, r)
  \/ Connection
  \/ \E c \in ClientIds : ChannelBreaks(c)
  \/ \E c \in ClientIds : OnError(c)
  \/ \E c \in ClientIds : OnClose(c)

Spec == Init /\ [][Next]_vars

\* setTimeout: while a timer is armed the event loop does run a timer callback
LiveSpec == Spec /\ WF_vars(\E i \in RequestIds : Timeout(i))

TypeOK ==
  /\ calls \in 0..MaxCalls
  /\ nextPermissionId \in 1..(MaxCalls + 1)
  /\ nextClientId \in 1..(MaxCalls + 1)
  /\ permissionClients \subseteq ClientIds
  /\ \A c \in ClientIds : channel[c] \in {"NONE", "OPEN", "CLOSING", "CLOSED"}
  /\ \A i \in RequestIds : /\ origin[i] \in {"none", "mcp", "direct"}
                           /\ waiter[i] \in {"none", "waiting", "returned"}
                           /\ timer[i] \in {"none", "armed", "cleared", "fired"}
  /\ Len(bus) <= calls

\* every id a client can send with a chat request
SessionIdInputs ==
  {NoSessionId, StaleSessionId}
    \cup {SessionId(n) : n \in 1..MaxChats} \cup {ClaudeSessionId(n) : n \in 1..MaxChats}

SessionNext ==
  \/ \E id \in SessionIdInputs : ProcessChat(id)
  \/ \E c \in ChatIds : EnsureDir(c)
  \/ \E c \in ChatIds : WriteFile(c)
  \/ \E c \in ChatIds : CreateSessionWorkspaceFails(c)
  \/ \E c \in ChatIds : \E id \in SessionIdInputs : HandleSessionInit(c, id)
  \/ \E c \in ChatIds : \E m \in StreamMessages : QueryMessage(c, m)
  \/ \E c \in ChatIds : QueryEnds(c)
  \/ \E c \in ChatIds : QueryRaises(c)

\* the chat calls and the session map, with the permission broker idle
SessionSpec == Init /\ [][SessionNext]_vars

\* one call of the permission proxy against the submit endpoint, with the
\* human who answers and the time
ProxyNext ==
  \/ \E args \in ToolArgsInputs, up \in LatencyInputs, down \in LatencyInputs :
       HandlePermissionRequest(args, up, down)
  \/ Deliver
  \/ \E ok \in BOOLEAN, r \in ReasonInputs : RespondToPermission(1, ok, r)
  \/ BrokerTimeout
  \/ FetchResolves
  \/ \E reply \in ForeignReplies : ForeignReply(reply)
  \/ FetchRejects
  \/ FetchStalls
  \/ Abort
  \/ Tick

ProxySpec == ProxyInit /\ [][ProxyNext]_vars

\* the normalisation of one message
NormalizeNext ==
  \/ ProcessMessage
  \/ AccumulateMessage
  \/ \E m \in FollowInputs : NextMessage(m)

NormalizeSpec == NormalizeInit /\ [][NormalizeNext]_vars

\* one chat turn of a browser: its request, the chat call of the server, and
\* the reading of the response
ClientNext ==
  \/ SendMessage
  \/ RequestArrives
  \/ ResponseBegins
  \/ FetchFails
  \/ EnsureDir(1)
  \/ WriteFile(1)
  \/ CreateSessionWorkspaceFails(1)
  \/ \E id \in SessionIdInputs : HandleSessionInit(1, id)
  \/ \E m \in StreamMessages : QueryMessage(1, m)
  \/ QueryEnds(1)
  \/ QueryRaises(1)
  \/ ReadEvent
  \/ ReadDone

ClientSpec == ClientInit /\ [][ClientNext]_vars

SessionTypeOK ==
  /\ calls \in 0..MaxChats
  /\ nextSessionId \in 1..(MaxChats + 1)
  /\ nextClaudeId \in 1..(MaxChats + 1)
  /\ DOMAIN sessionWorkspaces \subseteq SessionIdInputs
  /\ \A c \in ChatIds :
       chatPhase[c] \in {"none", "ensureDir", "writeFile", "query", "init", "done",
                        "failed", "raised"}
  /\ \A c \in ChatIds : chatPhase[c] = "none" <=> c > calls

\* PermissionManager.getPendingPermissions: Array.from(pendingPermissions.values())
GetPendingPermissions == pendingPermissions

\* ---- observations used by the properties --------------------------------------
McpIds == {i \in RequestIds : origin[i] = "mcp"}

\* the positions of the permission-response events published for one id
ResponsesFor(permissionId) ==
  {k \in 1..Len(bus) : bus[k].type = "permission-response" /\ bus[k].id = permissionId}

\* what respondToPermission(permissionId, ...) returns in the current state
RespondReturns(permissionId) ==
  IF MapHas(pendingPermissions, permissionId) THEN "success" ELSE "not-found"

ByTimeout(i) ==
  /\ timer[i] = "fired"
  /\ result[i] = TimeoutDenial
  /\ ResponsesFor(i) = {}

ByHuman(i) ==
  /\ timer[i] = "cleared"
  /\ Cardinality(ResponsesFor(i)) = 1
  /\ \A k \in ResponsesFor(i) :
       result[i] = [approved |-> bus[k].approved, reason |-> bus[k].reason]

\* C1: every requestMcpPermission call with a non-empty action and description
\* eventually returns (no submit waits forever); it returns exactly one outcome
\* (a human approval, a human denial or the timeout denial) that is never
\* replaced, and from then on its id is not in the pending registry.
SubmitEndsInOneOutcome ==
  /\ \A i \in RequestIds : <>[](waiter[i] # "waiting")
  /\ [][\A i \in RequestIds :
          waiter[i] = "returned" => (waiter'[i] = "returned" /\ result'[i] = result[i])]_vars
  /\ [](\A i \in RequestIds :
          waiter[i] = "returned" =>
            /\ resolveCalls[i] = 1
            /\ ~MapHas(pendingPermissions, i)
            /\ (ByTimeout(i) /\ ~ByHuman(i)) \/ (ByHuman(i) /\ ~ByTimeout(i)))

\* C1 witness: one submit ended by the timeout and another by a human approval
SubmitEndsInOneOutcomeWitness ==
  \E i, j \in McpIds :
    /\ waiter[i] = "returned" /\ ByTimeout(i)
    /\ waiter[j] = "returned" /\ ByHuman(j) /\ result[j].approved

\* C2: when a human response and the timeout of the same request race, the
\* waiter sees exactly one outcome.  If respondToPermission returned success
\* (its response event is on the bus) the waiter's result is that response's
\* approved value and reason, its timer never fires and resolve ran once; if
\* the timeout fired first, the result is the timeout denial, no response for
\* the id was ever accepted and a further respondToPermission returns not-found.
RaceHasOneOutcome ==
  \A i \in McpIds :
    /\ resolveCalls[i] <= 1
    /\ ResponsesFor(i) # {} =>
         /\ waiter[i] = "returned"
         /\ timer[i] = "cleared"
         /\ \A k \in ResponsesFor(i) :
              result[i] = [approved |-> bus[k].approved, reason |-> bus[k].reason]
    /\ timer[i] = "fired" =>
         /\ waiter[i] = "returned"
         /\ result[i] = TimeoutDenial
         /\ ResponsesFor(i) = {}
         /\ RespondReturns(i) = "not-found"

\* C2 witness: the timeout won and a later respondToPermission was answered
\* not-found, while another request was won by the human response
RaceHasOneOutcomeWitness ==
  \E i, j \in McpIds :
    /\ timer[i] = "fired" /\ i \in notFound /\ result[i] = TimeoutDenial
    /\ timer[j] = "cleared" /\ ResponsesFor(j) # {}

\* C3: for a request created by requestMcpPermission, the first
\* respondToPermission is accepted and decides the waiter's outcome; every
\* later one is answered not-found and changes neither the outcome nor the bus.
SecondResponseNotFound ==
  [][\A i \in RequestIds :
       (origin[i] = "mcp" /\ ResponsesFor(i) # {}) =>
         /\ RespondReturns(i) = "not-found"
         /\ result'[i] = result[i]
         /\ waiter'[i] = "returned"
         /\ ResponsesFor(i)' = ResponsesFor(i)
         /\ \A k \in ResponsesFor(i) :
              result[i] = [approved |-> bus[k].approved, reason |-> bus[k].reason]]_vars

\* C3 witness: a request decided by a first response; a second call was
\* answered not-found
SecondResponseNotFoundWitness ==
  \E i \in McpIds :
    /\ Cardinality(ResponsesFor(i)) = 1
    /\ i \in notFound
    /\ waiter[i] = "returned"
    /\ result[i].approved

\* C4: a respondToPermission call on an id that is not in the pending registry
\* returns not-found and changes nothing: no event is published, the registry,
\* the listeners, the frames sent, the timers and every waiter stay as they were.
NotFoundHasNoEffect ==
  [][/\ notFound' # notFound =>
          /\ \E i \in RequestIds : /\ ~MapHas(pendingPermissions, i)
                                   /\ notFound' = notFound \cup {i}
          /\ UNCHANGED <<pendingPermissions, bus, frames, requestListeners,
                         responseListeners, waiter, timer, result, resolveCalls,
                         permissionClients>>
     /\ \A i \in RequestIds :
          ~MapHas(pendingPermissions, i) => ResponsesFor(i)' = ResponsesFor(i)]_vars

\* C4 witness: not-found was returned for a request that timed out, for one
\* that was already resolved, or for an id that was never issued
NotFoundHasNoEffectWitness ==
  /\ \E i \in notFound : origin[i] = "none"
  /\ \E i \in notFound : origin[i] = "mcp" /\ waiter[i] = "returned"

\* C5: at most one permission-response event is ever published for a request
\* id, whichever way the request entered the registry.
AtMostOneResponsePerRequest ==
  \A i \in RequestIds : Cardinality(ResponsesFor(i)) <= 1

\* ---- observations of the fan-out -------------------------------------------
IsLive(f) == f.type \in {"permission-request", "permission-response"}

\* the permission-request / permission-response frames one client was sent
LiveFrames(c) == SelectSeq(frames[c], IsLive)

\* the ids carried by the pending-permissions frames one client was sent
SnapshotIds(c) ==
  UNION {{frames[c][k].permissions[j].id : j \in 1..Len(frames[c][k].permissions)} :
           k \in {n \in 1..Len(frames[c]) : frames[c][n].type = "pending-permissions"}}

SnapshotCount(c) ==
  Cardinality({n \in 1..Len(frames[c]) : frames[c][n].type = "pending-permissions"})

\* how many permission-request frames for one id a client was sent
LiveCount(c, i) ==
  Cardinality({n \in 1..Len(frames[c]) :
                 frames[c][n].type = "permission-request" /\ frames[c][n].id = i})

\* the position on the bus of the permission-request event of an issued id
RequestPos(i) ==
  CHOOSE k \in 1..Len(bus) : bus[k].type = "permission-request" /\ bus[k].id = i

\* the events published since a client connected, as frames
PublishedSince(c) ==
  [k \in 1..(Len(bus) - connectedAt[c]) |-> EventFrame(bus[connectedAt[c] + k])]

IsPrefix(s, t) == Len(s) <= Len(t) /\ \A k \in 1..Len(s) : s[k] = t[k]

Published == Len(bus') = Len(bus) + 1

\* C6: a subscriber that connects while the requests P are pending is sent one
\* pending-permissions snapshot holding exactly P (none when P is empty); after
\* it, it is sent a permission-request frame exactly for the requests created
\* after it connected, so a request reaches an open subscriber in the snapshot
\* or as a live frame, never both, and a pending one never neither.
SnapshotThenLiveOnly ==
  /\ [][\A c \in ClientIds :
          (c = nextClientId /\ nextClientId' # nextClientId) =>
             /\ SnapshotIds(c)' = PendingIds
             /\ SnapshotCount(c)' = IF PendingIds = {} THEN 0 ELSE 1]_vars
  /\ [](\A c \in ClientIds : \A i \in RequestIds :
          (channel[c] = "OPEN" /\ origin[i] # "none") =>
             LET snap == IF i \in SnapshotIds(c) THEN 1 ELSE 0
                 live == LiveCount(c, i)
             IN  /\ snap + live <= 1
                 /\ RequestPos(i) > connectedAt[c] => live = 1
                 /\ RequestPos(i) <= connectedAt[c] => live = 0
                 /\ i \in PendingIds => snap + live = 1)

\* C6 witness: an open subscriber got one request in its snapshot and a later
\* one as a live frame
SnapshotThenLiveOnlyWitness ==
  \E c \in ClientIds : \E i, j \in RequestIds :
    /\ channel[c] = "OPEN"
    /\ i \in SnapshotIds(c) /\ LiveCount(c, i) = 0
    /\ j \notin SnapshotIds(c) /\ LiveCount(c, j) = 1

\* C7: a subscriber whose channel is open has been sent every event published
\* since it connected, in publish order, each exactly once; one whose channel
\* is no longer open has been sent a prefix of them.
EveryEventInOrderOnce ==
  \A c \in ClientIds :
    /\ channel[c] = "OPEN" => LiveFrames(c) = PublishedSince(c)
    /\ channel[c] \in {"CLOSING", "CLOSED"} => IsPrefix(LiveFrames(c), PublishedSince(c))

\* C7 witness: an open subscriber that was sent a request and then its response
EveryEventInOrderOnceWitness ==
  \E c \in ClientIds :
    /\ channel[c] = "OPEN"
    /\ Len(LiveFrames(c)) >= 2
    /\ \E k \in 1..(Len(LiveFrames(c)) - 1) :
         /\ LiveFrames(c)[k].type = "permission-request"
         /\ LiveFrames(c)[k + 1].type = "permission-response"
         /\ LiveFrames(c)[k + 1].id = LiveFrames(c)[k].id

\* the subscribers still registered whose channel is no longer open
BrokenSubscribers == {c \in permissionClients : channel[c] # "OPEN"}

\* C8: while a subscriber with a broken channel is still registered, an event
\* that is published is still sent to every open subscriber, a response still
\* unblocks its waiter, and nothing is sent to the broken one; dropping the
\* broken subscriber touches neither the bus nor the other subscribers.
BrokenSubscriberIsolated ==
  [][BrokenSubscribers # {} =>
       /\ Published =>
            /\ \A c \in permissionClients :
                 frames'[c] = IF channel[c] = "OPEN"
                                THEN Append(frames[c], EventFrame(bus'[Len(bus')]))
                                ELSE frames[c]
            /\ \A i \in RequestIds :
                 (/\ bus'[Len(bus')].type = "permission-response"
                  /\ bus'[Len(bus')].id = i
                  /\ waiter[i] = "waiting") => waiter'[i] = "returned"
       /\ (\E c \in BrokenSubscribers : c \notin permissionClients') =>
            /\ UNCHANGED <<bus, frames, pendingPermissions, waiter, result, timer>>
            /\ \A c \in permissionClients' :
                 /\ WsListener(c) \in SeqRange(requestListeners')
                 /\ WsListener(c) \in SeqRange(responseListeners')
            /\ \A i \in RequestIds :
                 WaiterListener(i) \in SeqRange(responseListeners)
                   => WaiterListener(i) \in SeqRange(responseListeners')]_vars

\* C8 witness: a subscriber broke while a request made after it connected was
\* pending; the response published afterwards reached the subscriber registered
\* after it and unblocked the waiter, and did not reach the broken one
BrokenSubscriberIsolatedWitness ==
  \E c1, c2 \in ClientIds : \E i \in McpIds : \E k \in ResponsesFor(i) :
    /\ c1 < c2
    /\ c1 \in permissionClients /\ channel[c1] = "CLOSING"
    /\ channel[c2] = "OPEN"
    /\ RequestPos(i) > connectedAt[c1]
    /\ k > connectedAt[c2]
    /\ EventFrame(bus[k]) \in SeqRange(frames[c2])
    /\ EventFrame(bus[k]) \notin SeqRange(frames[c1])
    /\ waiter[i] = "returned"

\* C9: once a subscriber has disconnected nothing more is sent to it, the other
\* subscribers stay registered, and a request submitted afterwards is sent to
\* every subscriber whose channel is open.
DisconnectKeepsOthers ==
  [][/\ \A c \in ClientIds :
          channel[c] \in {"CLOSING", "CLOSED"} => frames'[c] = frames[c]
     /\ \A c \in ClientIds :
          (c \in permissionClients /\ c \notin permissionClients') =>
             /\ channel[c] # "OPEN"
             /\ permissionClients' = permissionClients \ {c}
             /\ WsListener(c) \notin SeqRange(requestListeners')
             /\ WsListener(c) \notin SeqRange(responseListeners')
             /\ \A d \in permissionClients' :
                  /\ WsListener(d) \in SeqRange(requestListeners')
                  /\ WsListener(d) \in SeqRange(responseListeners')
     /\ (Published /\ bus'[Len(bus')].type = "permission-request") =>
          \A c \in ClientIds :
            channel[c] = "OPEN" =>
              frames'[c] = Append(frames[c], EventFrame(bus'[Len(bus')]))]_vars

\* C9 witness: two subscribers were sent a first request, one disconnected,
\* and a second request was sent to the remaining one only
DisconnectKeepsOthersWitness ==
  \E c1, c2 \in ClientIds : \E i, j \in RequestIds :
    /\ c1 # c2 /\ i < j
    /\ channel[c1] = "CLOSED" /\ channel[c2] = "OPEN"
    /\ LiveCount(c1, i) = 1 /\ LiveCount(c2, i) = 1
    /\ LiveCount(c1, j) = 0 /\ LiveCount(c2, j) = 1

\* a step of the fan-out: a connection, a channel breaking, an error or close
\* handler
SubscriberStep ==
  \/ nextClientId' # nextClientId
  \/ channel' # channel
  \/ permissionClients' # permissionClients

\* C10: a pending request leaves the registry only by an accepted
\* respondToPermission for its id or by its own timeout; a subscriber
\* connecting, breaking or disconnecting changes neither the registry nor any
\* waiter, so the request can still be resolved afterwards.
OnlyResponseOrTimeoutRemoves ==
  [][/\ \A i \in RequestIds :
          (MapHas(pendingPermissions, i) /\ ~MapHas(pendingPermissions', i)) =>
             \/ timer[i] = "armed" /\ timer'[i] = "fired"
             \/ ResponsesFor(i)' # ResponsesFor(i)
     /\ SubscriberStep =>
          /\ UNCHANGED <<pendingPermissions, waiter, result, timer, resolveCalls, bus>>
          /\ \A i \in PendingIds : RespondReturns(i)' = "success"]_vars

\* C10 witness: a subscriber that was sent a request disconnected while it was
\* pending, another one connected later, got it in its snapshot, and the
\* request was then resolved by a response
OnlyResponseOrTimeoutRemovesWitness ==
  \E c1, c2 \in ClientIds : \E i \in McpIds : \E k \in ResponsesFor(i) :
    /\ c1 # c2
    /\ channel[c1] = "CLOSED"
    /\ LiveCount(c1, i) = 1
    /\ EventFrame(bus[k]) \notin SeqRange(frames[c1])
    /\ i \in SnapshotIds(c2)
    /\ EventFrame(bus[k]) \in SeqRange(frames[c2])
    /\ waiter[i] = "returned"

\* C11: the first frame a subscriber is sent is 'connected' and carries its
\* own client id, which no other subscriber's 'connected' frame carries; the
\* pending-permissions snapshot is sent in the same handler run as the second
\* frame exactly when a request is pending, and nowhere else; so every
\* permission-request / permission-response frame comes after both.
ConnectedThenSnapshotFirst ==
  /\ [](\A c \in ClientIds :
          /\ channel[c] # "NONE" =>
                (Len(frames[c]) >= 1 /\ frames[c][1] = ConnectedFrame(c))
          /\ \A k \in 1..Len(frames[c]) :
               /\ frames[c][k].type = "connected" => k = 1
               /\ frames[c][k].type = "pending-permissions" => k = 2
          /\ \A d \in ClientIds :
               (d # c /\ frames[c] # <<>> /\ frames[d] # <<>>) =>
                  frames[d][1].clientId # frames[c][1].clientId)
  /\ [][\A c \in ClientIds :
          (channel[c] = "NONE" /\ channel'[c] # "NONE") =>
             frames'[c] = IF pendingPermissions = <<>>
                            THEN <<ConnectedFrame(c)>>
                            ELSE <<ConnectedFrame(c), PendingFrame(pendingPermissions)>>]_vars

\* C11 witness: one subscriber was sent connected, the snapshot and then a live
\* frame; another, connected while nothing was pending, connected and then a
\* live frame
ConnectedThenSnapshotFirstWitness ==
  \E c, d \in ClientIds :
    /\ c # d
    /\ Len(frames[c]) >= 3
    /\ frames[c][1].type = "connected"
    /\ frames[c][2].type = "pending-permissions"
    /\ IsLive(frames[c][3])
    /\ Len(frames[d]) >= 2
    /\ frames[d][1].type = "connected"
    /\ IsLive(frames[d][2])

\* C12: a requestMcpPermission call whose action or description is missing
\* or empty throws before it touches anything: the pending registry, the bus,
\* the timers, the waiters, both listener lists and the frames sent stay as
\* they were, and no id is used up.
InvalidSubmitChangesNothing ==
  [][\A a \in ActionInputs, d \in DescriptionInputs :
       ((a = "" \/ d = "") /\ RequestMcpPermission(a, d)) =>
          /\ rejected'
          /\ UNCHANGED <<pendingPermissions, bus, timer, waiter, result,
                         requestListeners, responseListeners, frames,
                         nextPermissionId, origin, permissionClients>>]_vars

\* C12 witness: the first call was rejected while a subscriber was connected;
\* nothing is pending, nothing was published, no timer or waiter exists and the
\* subscriber's listener is the only one on the bus
InvalidSubmitChangesNothingWitness ==
  /\ rejected
  /\ nextPermissionId = 1
  /\ pendingPermissions = <<>> /\ bus = <<>>
  /\ \A i \in RequestIds : timer[i] = "none" /\ waiter[i] = "none"
  /\ \E c \in ClientIds :
       /\ channel[c] = "OPEN"
       /\ frames[c] = <<ConnectedFrame(c)>>
       /\ responseListeners = <<WsListener(c)>>
       /\ requestListeners = <<WsListener(c)>>

\* C13: a submit caller that is handed approved = false is always handed a
\* non-empty reason with it.  The timeout resolves the promise (it does not
\* reject it) with the fixed reason 'Request timed out after 60 seconds'; a
\* human denial with a missing or empty reason is delivered as 'Denied by
\* user', one with a reason is delivered with that reason.
DenialsCarryReason ==
  /\ [](\A i \in McpIds :
          (waiter[i] = "returned" /\ ~result[i].approved) =>
             /\ result[i].reason # ""
             /\ resolveCalls[i] = 1
             /\ timer[i] = "fired" =>
                  result[i].reason = "Request timed out after 60 seconds"
             /\ timer[i] # "fired" =>
                  result[i].reason \in {"Denied by user"} \cup (ReasonInputs \ {""}))
  /\ [][\A i \in RequestIds : \A r \in ReasonInputs :
          (waiter[i] = "waiting" /\ RespondToPermission(i, FALSE, r)) =>
             /\ waiter'[i] = "returned"
             /\ result'[i] = [approved |-> FALSE,
                              reason |-> IF r = "" THEN "Denied by user" ELSE r]]_vars

\* C13 witness: one submit ended by the timeout, one by a denial without a
\* reason and one by a denial with a reason
DenialsCarryReasonWitness ==
  \E i, j, k \in McpIds :
    /\ waiter[i] = "returned" /\ result[i] = TimeoutDenial
    /\ waiter[j] = "returned" /\ result[j] = [approved |-> FALSE, reason |-> "Denied by user"]
    /\ waiter[k] = "returned" /\ result[k] = [approved |-> FALSE, reason |-> "checked"]

\* the requests submitted through requestMcpPermission that have neither been
\* resolved by a response nor timed out
Unresolved == {i \in McpIds : waiter[i] = "waiting"}

\* C14: in every reachable state getPendingPermissions lists, among the
\* requests submitted through requestMcpPermission, exactly those that have
\* neither been resolved nor timed out, each once and as it was stored, and the
\* whole list is in submission order (ids are minted in submission order).
PendingListsUnresolvedInOrder ==
  LET all == GetPendingPermissions
      listed == SelectSeq(all, LAMBDA r : origin[r.id] = "mcp")
  IN  /\ {listed[k].id : k \in 1..Len(listed)} = Unresolved
      /\ Len(listed) = Cardinality(Unresolved)
      /\ \A k \in 1..Len(listed) : listed[k].status = "pending"
      /\ \A k \in 1..(Len(all) - 1) : all[k].id < all[k + 1].id

\* C14 witness: four submits, the second resolved by a response and the third
\* timed out; the first and the fourth are listed, in that order
PendingListsUnresolvedInOrderWitness ==
  /\ McpIds = 1..4
  /\ timer[2] = "cleared" /\ timer[3] = "fired"
  /\ Len(GetPendingPermissions) = 2
  /\ GetPendingPermissions[1].id = 1
  /\ GetPendingPermissions[2].id = 4

\* ---- observations of the session workspaces ------------------------------
\* the chat calls whose getSessionWorkspace call has returned
Returned == {c \in ChatIds : chatPhase[c] \in {"query", "init", "done", "raised"}}

\* the chat calls whose getSessionWorkspace call took the create branch and has
\* not failed
Created == {c \in ChatIds : /\ chatPhase[c] \notin {"none", "failed"}
                            /\ chatWorkspace[c].sessionId # chatSessionId[c]}

\* the chat calls whose getSessionWorkspace call found its id in the map
LookedUp == {c \in Returned : chatWorkspace[c].sessionId = chatSessionId[c]}

\* a chat request arrives: the step that runs getSessionWorkspace up to its await
ChatArrives == calls' = calls + 1

\* C15: getSessionWorkspace called with an id that is a key of the session map
\* returns at once that id with the directory bound to it; it mints no id,
\* creates no directory and leaves the session map as it was.
KnownIdReturnsBinding ==
  [][\A id \in DOMAIN sessionWorkspaces :
       (ChatArrives /\ chatSessionId'[calls'] = id) =>
          /\ chatWorkspace'[calls'] =
               [sessionId |-> id, workspaceDir |-> sessionWorkspaces[id]]
          /\ chatPhase'[calls'] = "query"
          /\ UNCHANGED <<sessionWorkspaces, directories, nextSessionId>>]_vars

\* C15 witness: a workspace created by a first call was returned to a second
\* call that named its workspace-minted id and to a third that named the
\* agent-minted id; one directory exists and the map binds those two ids to it
KnownIdReturnsBindingWitness ==
  \E a, b, c \in LookedUp \cup Created :
    /\ a \in Created /\ b \in LookedUp /\ c \in LookedUp
    /\ chatSessionId[b] = chatWorkspace[a].sessionId
    /\ chatSessionId[c].kind = "claude"
    /\ chatWorkspace[b].workspaceDir = chatWorkspace[a].workspaceDir
    /\ chatWorkspace[c].workspaceDir = chatWorkspace[a].workspaceDir
    /\ Cardinality(directories) = 1
    /\ Cardinality(DOMAIN sessionWorkspaces) = 2

\* C16: getSessionWorkspace called with no id or with an id that is not a key
\* of the session map mints an id that is neither a key nor held by another
\* call, creates a directory that did not exist, and when it returns has added
\* exactly the binding minted id -> that directory; a later call that names
\* the returned id is handed the same directory.
UnknownIdCreatesBinding ==
  /\ [][\A c \in ChatIds :
          /\ (ChatArrives /\ c = calls' /\ ~Has(sessionWorkspaces, chatSessionId'[c])) =>
                /\ chatPhase'[c] = "ensureDir"
                /\ ~Has(sessionWorkspaces, chatWorkspace'[c].sessionId)
                /\ chatWorkspace'[c].workspaceDir \notin directories
                /\ \A d \in ChatIds \ {c} :
                     /\ chatWorkspace[d].sessionId # chatWorkspace'[c].sessionId
                     /\ chatWorkspace[d].workspaceDir # chatWorkspace'[c].workspaceDir
          /\ (chatPhase[c] = "ensureDir" /\ chatPhase'[c] = "writeFile") =>
                /\ chatWorkspace[c].workspaceDir \notin directories
                /\ directories' = directories \cup {chatWorkspace[c].workspaceDir}
          /\ (chatPhase[c] = "writeFile" /\ chatPhase'[c] = "query") =>
                /\ ~Has(sessionWorkspaces, chatWorkspace[c].sessionId)
                /\ DOMAIN sessionWorkspaces' =
                     DOMAIN sessionWorkspaces \cup {chatWorkspace[c].sessionId}
                /\ sessionWorkspaces'[chatWorkspace[c].sessionId] =
                     chatWorkspace[c].workspaceDir
                /\ \A k \in DOMAIN sessionWorkspaces :
                     sessionWorkspaces'[k] = sessionWorkspaces[k]
                /\ chatWorkspace'[c] = chatWorkspace[c]]_vars
  /\ [](\A a \in Created \cap Returned : \A b \in LookedUp :
          chatSessionId[b] = chatWorkspace[a].sessionId =>
            chatWorkspace[b].workspaceDir = chatWorkspace[a].workspaceDir)

\* C16 witness: a call without an id and a call with an unknown id each
\* returned a workspace of its own, and a later call that named the id
\* returned to the second was handed the second's directory
UnknownIdCreatesBindingWitness ==
  \E a, b \in Created \cap Returned : \E c \in LookedUp :
    /\ chatSessionId[a] = NoSessionId
    /\ chatSessionId[b] = StaleSessionId
    /\ sessionWorkspaces[chatWorkspace[a].sessionId] = chatWorkspace[a].workspaceDir
    /\ sessionWorkspaces[chatWorkspace[b].sessionId] = chatWorkspace[b].workspaceDir
    /\ chatWorkspace[a].workspaceDir # chatWorkspace[b].workspaceDir
    /\ chatSessionId[c] = chatWorkspace[b].sessionId
    /\ chatWorkspace[c].workspaceDir = chatWorkspace[b].workspaceDir

\* C17: getSessionWorkspace calls that are made with the same id and hold a
\* workspace at the same time hold the same directory, and once one of them
\* has returned that directory is bound to the id they named.
SameIdConverges ==
  \A a, b \in ChatIds :
    (/\ a # b
     /\ chatSessionId[a] # NoSessionId
     /\ chatSessionId[a] = chatSessionId[b]
     /\ chatPhase[a] \notin {"none", "failed"}
     /\ chatPhase[b] \notin {"none", "failed"}) =>
        /\ chatWorkspace[a].workspaceDir = chatWorkspace[b].workspaceDir
        /\ a \in Returned =>
             /\ Has(sessionWorkspaces, chatSessionId[a])
             /\ sessionWorkspaces[chatSessionId[a]] = chatWorkspace[a].workspaceDir

\* C18: the getSessionWorkspace calls made without an id, however they
\* overlap, hold pairwise distinct minted ids and pairwise distinct
\* directories; once such a call has returned, its directory exists and its
\* minted id is bound to the directory the call created, so a later
\* getSessionWorkspace(id) returns it.
NoIdCallsAreDistinct ==
  /\ \A a, b \in Created :
       (a # b /\ chatSessionId[a] = NoSessionId /\ chatSessionId[b] = NoSessionId) =>
          /\ chatWorkspace[a].sessionId # chatWorkspace[b].sessionId
          /\ chatWorkspace[a].workspaceDir # chatWorkspace[b].workspaceDir
  /\ \A a \in Created \cap Returned :
       chatSessionId[a] = NoSessionId =>
          /\ chatWorkspace[a].workspaceDir \in directories
          /\ Has(sessionWorkspaces, chatWorkspace[a].sessionId)
          /\ sessionWorkspaces[chatWorkspace[a].sessionId] = chatWorkspace[a].workspaceDir
          /\ chatWorkspace[a].workspaceDir =
               PathJoin(BaseWorkspaceDir, chatWorkspace[a].sessionId)

\* C18 witness: three calls without an id overlapped: the first is still
\* writing its README while the two that began after it have returned, each
\* with its own id bound to its own directory
NoIdCallsAreDistinctWitness ==
  /\ \A c \in 1..3 : chatSessionId[c] = NoSessionId
  /\ chatPhase[1] = "writeFile"
  /\ {2, 3} \subseteq Created \cap Returned
  /\ Cardinality(directories) = 3
  /\ Cardinality(DOMAIN sessionWorkspaces) >= 2
  /\ sessionWorkspaces[chatWorkspace[2].sessionId] # sessionWorkspaces[chatWorkspace[3].sessionId]

\* C19: a key of the session map stays a key and keeps its directory through
\* every step (getSessionWorkspace, the rebind of a system/init message, the
\* end or failure of a chat call), so a call that names a bound id is handed
\* the directory of the id's first binding.
BindingNeverChanges ==
  /\ [][\A k \in DOMAIN sessionWorkspaces :
          /\ Has(sessionWorkspaces', k)
          /\ sessionWorkspaces'[k] = sessionWorkspaces[k]]_vars
  /\ [](\A b \in LookedUp :
          /\ Has(sessionWorkspaces, chatSessionId[b])
          /\ chatWorkspace[b].workspaceDir = sessionWorkspaces[chatSessionId[b]])

\* C19 witness: two new sessions were each rebound to an agent-minted id, and
\* a call that then named the first workspace-minted id was handed the first
\* directory
BindingNeverChangesWitness ==
  \E a, b \in Created : \E c \in LookedUp :
    /\ a < b /\ b < c
    /\ chatPhase[a] \in {"init", "done"} /\ chatPhase[b] \in {"init", "done"}
    /\ Cardinality(DOMAIN sessionWorkspaces) = 4
    /\ chatSessionId[c] = chatWorkspace[a].sessionId
    /\ chatWorkspace[c].workspaceDir = PathJoin(BaseWorkspaceDir, chatWorkspace[a].sessionId)

\* C20: the rebind of a system/init message adds the agent-minted id with the
\* call's workspace directory and changes nothing else in the session map:
\* every other key keeps its directory, and the id the workspace manager
\* minted for the same call stays bound to the same directory.
RebindKeepsOtherKeys ==
  [][\A c \in ChatIds :
       (/\ chatPhase[c] = "query" /\ chatPhase'[c] = "init"
        /\ chatSessionId[c] = NoSessionId) =>
          LET claudeSessionId == ClaudeSessionId(nextClaudeId)
          IN  /\ DOMAIN sessionWorkspaces' = DOMAIN sessionWorkspaces \cup {claudeSessionId}
              /\ sessionWorkspaces'[claudeSessionId] = chatWorkspace[c].workspaceDir
              /\ \A k \in DOMAIN sessionWorkspaces \ {claudeSessionId} :
                   sessionWorkspaces'[k] = sessionWorkspaces[k]
              /\ sessionWorkspaces'[chatWorkspace[c].sessionId] = chatWorkspace[c].workspaceDir
              /\ directories' = directories]_vars

\* C20 witness: a new session was rebound while another session was bound;
\* its directory is bound to its workspace-minted id and to the agent-minted
\* id, and the other session's key still has its own directory
RebindKeepsOtherKeysWitness ==
  \E a, b \in Created \cap Returned : \E k \in DOMAIN sessionWorkspaces :
    /\ a # b
    /\ chatPhase[a] = "init" /\ chatSessionId[a] = NoSessionId
    /\ k.kind = "claude"
    /\ sessionWorkspaces[k] = chatWorkspace[a].workspaceDir
    /\ sessionWorkspaces[chatWorkspace[a].sessionId] = chatWorkspace[a].workspaceDir
    /\ chatPhase[b] = "query"
    /\ sessionWorkspaces[chatWorkspace[b].sessionId] = chatWorkspace[b].workspaceDir
    /\ chatWorkspace[b].workspaceDir # chatWorkspace[a].workspaceDir

\* ---- observations of the stream of a chat call ---------------------------
\* the last event a call has written
LastEvent(call) == events[call][Len(events[call])]

\* the events of a call that have one type
EventsOfType(call, type) == SelectSeq(events[call], LAMBDA e : e.type = type)

\* the call's for-await loop processes the system/init message in this step
InitStep(call) == chatPhase[call] = "query" /\ chatPhase'[call] = "init"

\* the call's for-await loop ends normally in this step
CompletionStep(call) == chatPhase[call] \in {"query", "init"} /\ chatPhase'[call] = "done"

\* the call ends in this step, normally or with an exception
FinishStep(call) ==
  /\ chatPhase[call] \in {"ensureDir", "writeFile", "query", "init"}
  /\ chatPhase'[call] \in {"done", "raised", "failed"}

\* the chat calls that have ended
Finished == {c \in ChatIds : chatPhase[c] \in {"done", "raised", "failed"}}

\* the chat calls whose agent call is running
Querying == {c \in ChatIds : chatPhase[c] \in {"query", "init"}}

\* C21: the system/init message of a call sets the call's session id to the
\* announced id S, which the completion event then reports; for a call started
\* without a session id S is bound to the call's workspace directory, for a
\* call started with one the session map is left as it was.
InitBindsNewSessionOnly ==
  [][\A c \in ChatIds :
       /\ InitStep(c) =>
            /\ finalSessionId'[c] \in InitIds(c)
            /\ IF chatSessionId[c] = NoSessionId
                 THEN /\ Has(sessionWorkspaces', finalSessionId'[c])
                      /\ sessionWorkspaces'[finalSessionId'[c]] = chatWorkspace[c].workspaceDir
                 ELSE sessionWorkspaces' = sessionWorkspaces
       /\ (chatPhase[c] = "init" /\ chatPhase'[c] = "done") =>
            events'[c] = Append(events[c], CompleteEvent(finalSessionId[c]))]_vars

\* C21 witness: a call without an id has completed and reported the
\* agent-minted id that is bound to its directory, and a call that resumed a
\* session was announced a new id, which is no key of the session map
InitBindsNewSessionOnlyWitness ==
  \E a, b \in ChatIds :
    /\ chatSessionId[a] = NoSessionId /\ chatPhase[a] = "done"
    /\ LastEvent(a).sessionId.kind = "claude"
    /\ Has(sessionWorkspaces, LastEvent(a).sessionId)
    /\ sessionWorkspaces[LastEvent(a).sessionId] = chatWorkspace[a].workspaceDir
    /\ chatSessionId[b] # NoSessionId /\ chatPhase[b] = "init"
    /\ finalSessionId[b] # chatSessionId[b]
    /\ ~Has(sessionWorkspaces, finalSessionId[b])

\* the id a completed call reports: the id of the system/init message when
\* one was seen, otherwise the id getSessionWorkspace returned
ReportedId(call) ==
  IF chatPhase[call] = "init" THEN finalSessionId[call] ELSE chatWorkspace[call].sessionId

\* C22 as stated: a call that completes writes one completion event, after
\* its text events, and the event carries the id of the system/init message
\* or, when none was seen, an id the workspace manager minted.
CompletionCarriesInitOrMintedId ==
  /\ [][\A c \in ChatIds : CompletionStep(c) =>
          /\ events'[c] = Append(events[c], CompleteEvent(ReportedId(c)))
          /\ chatPhase[c] = "query" => ReportedId(c).kind = "session"]_vars
  /\ [](\A c \in ChatIds :
          /\ Len(EventsOfType(c, "complete")) = (IF chatPhase[c] = "done" THEN 1 ELSE 0)
          /\ chatPhase[c] = "done" => LastEvent(c).type = "complete")

\* C22 amended: a call that completes writes one completion event, after its
\* text events, and the event carries the id of the system/init message or,
\* when none was seen, the id getSessionWorkspace returned: the minted id of a
\* new workspace, or the id the call was started with when that id is bound.
CompletionCarriesFinalId ==
  /\ [][\A c \in ChatIds : CompletionStep(c) =>
          /\ events'[c] = Append(events[c], CompleteEvent(ReportedId(c)))
          /\ chatPhase[c] = "query" =>
               ReportedId(c) = (IF c \in LookedUp THEN chatSessionId[c]
                                ELSE chatWorkspace[c].sessionId)]_vars
  /\ [](\A c \in ChatIds :
          /\ Len(EventsOfType(c, "complete")) = (IF chatPhase[c] = "done" THEN 1 ELSE 0)
          /\ chatPhase[c] = "done" =>
               /\ LastEvent(c).type = "complete"
               /\ \A k \in 1..(Len(events[c]) - 1) : events[c][k].type = "message")

\* C22 witness: a call started with an agent-minted id has completed: a text
\* event, then the completion event with that id; no other call was announced
\* an id after the one that minted it
CompletionCarriesFinalIdWitness ==
  \E c \in ChatIds :
    /\ chatPhase[c] = "done"
    /\ chatSessionId[c].kind = "claude"
    /\ nextClaudeId = 2
    /\ Len(events[c]) = 2
    /\ events[c][1].type = "message"
    /\ events[c][2] = CompleteEvent(chatSessionId[c])

\* C23: a call whose query raised has written one error event as its last
\* event and no completion event, and no call runs its query more than once.
RaiseEndsWithOneError ==
  /\ \A c \in ChatIds : queryCalls[c] <= 1
  /\ \A c \in ChatIds :
       chatPhase[c] = "raised" =>
         /\ Len(EventsOfType(c, "error")) = 1
         /\ LastEvent(c) = ErrorEvent
         /\ Len(EventsOfType(c, "complete")) = 0
         /\ queryCalls[c] = 1
  /\ \A c \in ChatIds :
       chatPhase[c] \notin {"raised", "failed"} => Len(EventsOfType(c, "error")) = 0

\* C23 witness: a call raised after its system/init message and a text event:
\* the text event, then the error event
RaiseEndsWithOneErrorWitness ==
  \E c \in ChatIds :
    /\ chatPhase[c] = "raised"
    /\ Len(events[c]) = 2
    /\ events[c][1].type = "message"
    /\ events[c][2] = ErrorEvent
    /\ queryCalls[c] = 1
    /\ \E k \in DOMAIN sessionWorkspaces : k.kind = "claude"

\* C24: after the first chat call of the server has ended with no other call
\* started, the override has the value the server was started with (the value
\* MCP_SERVERS has kept), unset when it was unset.
SoloCallRestoresOverride ==
  (calls = 1 /\ 1 \in Finished) => env = mcpServers.CLAUDE_WORKSPACE_DIR

\* C25: the restore of an ending call writes the value the call saved when it
\* began, and the call that sets the override writes its own directory,
\* whatever the override holds and whichever calls are running.
OverrideWritesAreBlind ==
  [][\A c \in ChatIds :
       /\ FinishStep(c) => env' = EnvAssign(originalEnv[c])
       /\ (c \notin Querying /\ chatPhase'[c] = "query") =>
            env' = chatWorkspace'[c].workspaceDir]_vars

\* C25 witness: the first two calls overlapped and have both ended, and the
\* override is left at the first call's session directory, not at the value
\* the server was started with; the agent call of the third call, which
\* overlapped the second, runs under that directory, not under its own
OverrideWritesAreBlindWitness ==
  /\ {1, 2} \subseteq Finished
  /\ env = chatWorkspace[1].workspaceDir
  /\ env # EnvAssign(mcpServers.CLAUDE_WORKSPACE_DIR)
  /\ 3 \in Querying
  /\ env # chatWorkspace[3].workspaceDir

\* ---- observations of the permission proxy ---------------------------------
\* the reply the fetch resolved with is a success status with a JSON object
\* whose approved is the boolean true
ApprovedReply ==
  /\ fetchOutcome.kind = "reply"
  /\ fetchOutcome.reply.ok
  /\ fetchOutcome.reply.body = "object"
  /\ fetchOutcome.reply.approvedType = "boolean"
  /\ fetchOutcome.reply.approved

\* C26: a proxy call that has returned allows exactly when its fetch resolved
\* with a success status and a JSON object whose approved is the boolean
\* true; after an abort, a rejected fetch, another status or a malformed body
\* it denies.
AllowOnlyOnBooleanApproval ==
  proxyPhase = "returned" =>
    /\ fetchOutcome.kind \in {"reply", "network", "aborted"}
    /\ proxyResult.behavior = (IF ApprovedReply THEN "allow" ELSE "deny")

\* C26 witness: the fetch resolved with a success status and an object whose
\* approved is the string 'true', and the proxy denied
AllowOnlyOnBooleanApprovalWitness ==
  /\ proxyPhase = "returned"
  /\ fetchOutcome = FetchOutcome("reply", HttpReply(TRUE, "object", "string", TRUE, "ok"))
  /\ proxyResult.behavior = "deny"

\* C27: an approved call with a file path /tmp/<name> returns the path <name>
\* in the session directory of the chat call the proxy serves, not the
\* /tmp path.
RedirectNamesSessionDir ==
  (/\ proxyPhase = "returned"
   /\ proxyResult.behavior = "allow"
   /\ proxyArgs.filePath.dir = TmpDir
   /\ proxyArgs.filePath.rest # <<>>) =>
      /\ proxyResult.updatedInput =
           Normalize(proxySessionDir, <<>>, proxyArgs.filePath.rest)
      /\ proxyResult.updatedInput # proxyArgs.filePath

\* C28: a proxy call sends one request; when the request reached the endpoint
\* and its reply is not lost the proxy is not aborted, and when the 60 s timer
\* of the endpoint has fired the call returns a deny with the broker's timeout
\* reason; an abort comes 65 s after the call began.
UnansweredGetsBrokerTimeout ==
  /\ fetchCalls <= 1
  /\ proxyPhase \in {"fetching", "returned"} => fetchCalls = 1
  /\ (proxyPhase = "returned" /\ Delivered /\ ~fetchRequest.lost) =>
       /\ fetchOutcome.kind = "reply"
       /\ timer[1] # "armed"
       /\ timer[1] = "fired" =>
            proxyResult = PermissionResponse("deny", "denied", TimeoutDenial.reason,
                                             NoFilePath)
  /\ fetchOutcome.kind = "aborted" => now >= ProxyTimeoutMs

\* C28 witness: nobody answered; the request and the reply each took the
\* longest time, and the proxy has returned the broker's timeout denial
\* before its own 65 s
UnansweredGetsBrokerTimeoutWitness ==
  /\ proxyPhase = "returned"
  /\ timer[1] = "fired"
  /\ now = BrokerTimeoutMs + 2 * MaxLatencyMs
  /\ now < ProxyTimeoutMs
  /\ proxyResult.message.reason = TimeoutDenial.reason

\* ---- observations of the message normalisation ------------------------------
\* the text of the text-typed parts, each after the first preceded by a newline
RECURSIVE JoinedText(_, _)
JoinedText(parts, first) ==
  IF parts = <<>> THEN <<>>
  ELSE IF Head(parts).type # "text" THEN JoinedText(Tail(parts), first)
  ELSE (IF first THEN <<>> ELSE <<NL>>) \o Head(parts).text \o JoinedText(Tail(parts), FALSE)

IsBlank(t) == \A k \in 1..Len(t) : IsSpace(t[k])

\* the message is an assistant message with a list of parts
IsAssistantList ==
  /\ messageIn.kind = "object"
  /\ messageIn.type = "assistant"
  /\ messageIn.hasMessage
  /\ messageIn.contentIsArray

\* C29 as stated: an assistant message with a list of parts gives one text
\* event with the text of its text-typed parts joined by a newline, and none
\* when that text is empty.
AssistantTextUnlessEmpty ==
  (processed.done /\ IsAssistantList) =>
    LET joined == JoinedText(messageIn.parts, TRUE)
    IN  IF joined = <<>>
          THEN ~processed.shouldSend
          ELSE processed.shouldSend /\ processed.content = joined

\* C29 amended: an assistant message with a list of parts gives one text
\* event with the text of its text-typed parts joined by a newline, and none
\* when that text is empty or nothing but whitespace.
AssistantTextUnlessBlank ==
  (processed.done /\ IsAssistantList) =>
    LET joined == JoinedText(messageIn.parts, TRUE)
    IN  IF IsBlank(joined)
          THEN ~processed.shouldSend
          ELSE processed.shouldSend /\ processed.content = joined

\* C29 witness: two text parts with a part of another type between them gave
\* the two texts with one newline between
AssistantTextUnlessBlankWitness ==
  /\ processed.done
  /\ messageIn = AssistantMessage(<<Part("text", <<"a">>), Part("tool_use", <<"t">>),
                                    Part("text", <<"b">>)>>)
  /\ processed.shouldSend
  /\ processed.content = <<"a", NL, "b">>

\* C30: a message of type result gives no text event and adds nothing to the
\* response of a regular chat.
ResultNeverText ==
  (processed.done /\ messageIn.kind = "object" /\ messageIn.type = "result") =>
    /\ ~processed.shouldSend
    /\ taken = 1 => fullResponse = <<>>

\* C31 as stated: a bare string gives one text event whose value is the string.
StringIsSent ==
  (processed.done /\ messageIn.kind = "string") =>
    processed.shouldSend /\ processed.content = messageIn.str

\* C31 amended: a bare string with a character that is no whitespace gives one
\* text event whose value is the string as it came, and a string that is empty
\* or nothing but whitespace gives none.
StringIsSentUnlessBlank ==
  (processed.done /\ messageIn.kind = "string") =>
    IF IsBlank(messageIn.str)
      THEN ~processed.shouldSend
      ELSE processed.shouldSend /\ processed.content = messageIn.str

\* C31 witness: a string with whitespace around its text was sent untrimmed
StringIsSentUnlessBlankWitness ==
  /\ processed.done
  /\ messageIn.kind = "string"
  /\ messageIn.str = <<" ", "s", NL>>
  /\ processed.shouldSend
  /\ processed.content = <<" ", "s", NL>>

\* the message is an object that is no assistant message and is not tagged
\* result
IsOtherObject ==
  /\ messageIn.kind = "object"
  /\ ~(messageIn.type = "assistant" /\ messageIn.hasMessage)
  /\ messageIn.type # "result"

\* message.content || message.text
DirectField == IF messageIn.content # <<>> THEN messageIn.content ELSE messageIn.text

\* C32 as stated: another object with a content or text field gives one text
\* event with that value, content before text; an object with neither, and
\* what is neither a string nor an object, gives none.
DirectFieldIsSent ==
  /\ (processed.done /\ IsOtherObject) =>
       IF DirectField = <<>>
         THEN ~processed.shouldSend
         ELSE processed.shouldSend /\ processed.content = DirectField
  /\ (processed.done /\ messageIn.kind = "other") => ~processed.shouldSend

\* C32 amended: the same, but a field that is nothing but whitespace gives no
\* event (and text is not looked at when content is there).
DirectFieldIsSentUnlessBlank ==
  /\ (processed.done /\ IsOtherObject) =>
       IF IsBlank(DirectField)
         THEN ~processed.shouldSend
         ELSE processed.shouldSend /\ processed.content = DirectField
  /\ (processed.done /\ messageIn.kind = "other") => ~processed.shouldSend

\* C32 witness: an object with both fields gave its content
DirectFieldIsSentUnlessBlankWitness ==
  /\ processed.done
  /\ IsOtherObject
  /\ messageIn.content = <<"c">>
  /\ messageIn.text = <<"t">>
  /\ processed.shouldSend
  /\ processed.content = <<"c">>

\* C33: the pass of the regular chat loop over a message that has text puts
\* a blank line between the text accumulated so far and the new text when both
\* are not empty, and nothing otherwise.
RegularJoinInsertsBlankLine ==
  [][(~accumulated /\ accumulated') =>
       fullResponse' =
         IF fullResponse # <<>> /\ RegularText(messageIn) # <<>>
           THEN fullResponse \o <<NL, NL>> \o RegularText(messageIn)
           ELSE fullResponse \o RegularText(messageIn)]_vars

\* C38: when both chat loops have had their pass over the messages so far,
\* the response of the regular loop is the contents of the message events of
\* the streaming loop, one after the other.
PathsSelectSameText ==
  (processed.done /\ accumulated) => fullResponse = Join(pieces, <<>>)

\* C34: the session id a completed call has reported is a key of the session
\* map, bound to the workspace directory the call worked in.
ReportedIdIsBound ==
  \A c \in ChatIds :
    chatPhase[c] = "done" =>
      /\ Has(sessionWorkspaces, LastEvent(c).sessionId)
      /\ sessionWorkspaces[LastEvent(c).sessionId] = chatWorkspace[c].workspaceDir

\* C35: an observer whose channel is open and that has handled every frame
\* sent to it holds exactly the ids of the broker's pending requests.
ObserverHoldsPending ==
  \A c \in ClientIds :
    channel[c] = "OPEN" => SeqRange(Permissions(frames[c])) = PendingIds

\* the requests whose submit listener is registered on the bus
SubmitListeners ==
  {i \in RequestIds : WaiterListener(i) \in SeqRange(responseListeners)}

\* C36: the submit listeners on the bus are those of the pending requests
\* that requestMcpPermission created; a submit that has returned has none.
SubmitListenersArePending ==
  /\ SubmitListeners = {i \in PendingIds : origin[i] = "mcp"}
  /\ \A i \in RequestIds : waiter[i] = "returned" => i \notin SubmitListeners

\* the clients whose listener is in a listener list
ListenerClients(ls) == {c \in ClientIds : WsListener(c) \in SeqRange(ls)}

\* C37: the clients in permissionClients are those with a permission-request
\* listener and those with a permission-response listener on the bus, and the
\* close of a channel whose client an error has removed changes none of them.
ClientsAreListeners ==
  /\ [](/\ permissionClients = ListenerClients(requestListeners)
        /\ permissionClients = ListenerClients(responseListeners))
  /\ [][\A c \in ClientIds :
          (channel[c] = "CLOSING" /\ channel'[c] = "CLOSED" /\ c \notin permissionClients) =>
            UNCHANGED <<permissionClients, requestListeners, responseListeners>>]_vars

\* C37 witness: an error has removed a client and its listeners, its close is
\* still to come, and another client is connected with its listeners
ClientsAreListenersWitness ==
  \E c, d \in ClientIds :
    /\ channel[c] = "CLOSING"
    /\ c \notin permissionClients
    /\ WsListener(c) \notin SeqRange(requestListeners) \cup SeqRange(responseListeners)
    /\ d \in permissionClients
    /\ WsListener(d) \in SeqRange(requestListeners)
    /\ WsListener(d) \in SeqRange(responseListeners)

\* C40: for an approved call with a file path under /tmp/ the returned path
\* lies inside the workspace directory of the proxy: it is the directory
\* followed by at least one segment.
RedirectStaysInside ==
  (/\ proxyPhase = "returned"
   /\ proxyResult.behavior = "allow"
   /\ proxyArgs.filePath.dir = TmpDir) =>
      /\ proxyResult.updatedInput.dir = ProxyWorkspaceDir(proxyEnv)
      /\ proxyResult.updatedInput.rest # <<>>

\* C39: once the browser has handled an error event of the response,
\* ClaudeService.sendMessage has thrown to ClaudeContext, which has appended
\* an error message for the turn; the turn has not gone on or ended normally
ErrorEventRaises ==
  (clientPhase # "off" /\ \E k \in 1..readCount : events[1][k].type = "error")
    => (clientPhase = "threw" /\ errorShown)

====
